---- MODULE Spec2Model ----
(***************************************************************************)
(* Model of the simulation core of electric-simulator:                     *)
(*   - the digital logic simulator (simulation/digital_logic.py) as driven *)
(*     directly and by the routes of 2-backend/routes/digital_simulation.py*)
(*   - the MNA circuit engine (simulation/engine.py).                      *)
(*                                                                         *)
(* Conventions.  Python list index i is TLA+ sequence index i+1.  A dict   *)
(* is a function on the set of its keys.  Gate ids, flip-flop ids and      *)
(* input names are small integers.  Times are integer ticks.               *)
(***************************************************************************)
EXTENDS Integers, Sequences, FiniteSets, TLC

VARIABLES
    gates,          \* DigitalCircuitSimulator.gates: id -> LogicGate
    flip_flops,     \* DigitalCircuitSimulator.flip_flops: id -> FlipFlop
    wires,          \* DigitalCircuitSimulator.wires: list of Wire
    inputs,         \* DigitalCircuitSimulator.inputs: name -> LogicLevel
    current_time,   \* DigitalCircuitSimulator.current_time
    pc,             \* position of the running handler ("idle": none running)
    frame,          \* arguments and locals of the running handler
    results,        \* the running handler's local list (results, truth_table)
    ret,            \* the value the last handler returned
    iterations,     \* propagate(): local `iterations` of the last call
    changes,        \* propagate(): local `changes` of the last call
    warned,         \* propagate(): whether the last call printed its warning
    eval_gate,      \* a single LogicGate under test (evaluate / update)
    eval_out,       \* the value evaluate() returned for eval_gate
    engine,         \* the fields of the module-level CircuitSimulationEngine
    suspended,      \* a second digital run, not scheduled at the moment
    active_connections, \* ConnectionManager.active_connections: room -> set
    endpoints,      \* the running websocket_endpoint calls: websocket -> room
    broadcast       \* the locals and position of the broadcast() under way

vars == <<gates, flip_flops, wires, inputs, current_time, pc, frame, results, ret,
          iterations, changes, warned, eval_gate, eval_out, engine, suspended,
          active_connections, endpoints, broadcast>>

simVars == <<gates, flip_flops, wires, inputs, current_time>>
propVars == <<iterations, changes, warned>>
evalVars == <<eval_gate, eval_out>>
managerVars == <<active_connections, endpoints, broadcast>>
sharedVars == <<engine, suspended, managerVars>>
simulatorVars == <<simVars, pc, frame, results, ret, propVars, evalVars, engine,
                   suspended>>

----------------------------------------------------------------------------
(* Bounds of the model *)

MaxWires == 2
MaxArity == 2
MaxCycles == 2
MaxNames == 2
MaxDuration == 2

GateIds == {1, 2, 3}
FlipFlopIds == {1, 2}

----------------------------------------------------------------------------
(* LogicLevel, GateType *)

LOW == "LOW"
HIGH == "HIGH"
UNKNOWN == "UNKNOWN"
HIGH_Z == "HIGH_Z"

LogicLevel == {LOW, HIGH, UNKNOWN, HIGH_Z}

\* LogicLevel.<member>.value
LevelValue(l) ==
    CASE l = LOW -> 0
      [] l = HIGH -> 1
      [] l = UNKNOWN -> -1
      [] l = HIGH_Z -> -2

CombinationalTypes == {"AND", "OR", "NOT", "NAND", "NOR", "XOR", "XNOR", "BUFFER"}
GateType == CombinationalTypes \cup
            {"D_FLIP_FLOP", "JK_FLIP_FLOP", "LATCH", "MUX", "DECODER", "ENCODER"}

\* propagate(): max_iterations = 100
max_iterations == 100

\* Python's None where an id is expected: ids are positive here
None == 0

----------------------------------------------------------------------------
(* Sequence helpers *)

Range(s) == {s[i] : i \in DOMAIN s}

\* a count of the HIGH inputs that leaves the first input out
HighCountOfTail(s) == Cardinality({i \in 2..Len(s) : s[i] = HIGH})

\* sum(1 for i in inputs if i == HIGH)
RECURSIVE HighCount(_)
HighCount(s) ==
    IF s = <<>> THEN 0
    ELSE (IF Head(s) = HIGH THEN 1 ELSE 0) + HighCount(Tail(s))

\* [v] * n
Repeat(v, n) == [i \in 1..n |-> v]

\* d[k] = v on a dict
DictSet(d, k, v) ==
    [x \in (DOMAIN d) \cup {k} |-> IF x = k THEN v ELSE d[x]]

EmptyDict == <<>>

----------------------------------------------------------------------------
(* LogicGate *)

\* a gate whose inputs start LOW
NewGateLowInputs(gtype, n) ==
    [type |-> gtype, num_inputs |-> n, inputs |-> Repeat(LOW, n),
     output |-> UNKNOWN, last_update_time |-> 0]

\* LogicGate.__init__
NewGate(gtype, n) ==
    [type |-> gtype, num_inputs |-> n, inputs |-> Repeat(UNKNOWN, n),
     output |-> UNKNOWN, last_update_time |-> 0]

\* LogicGate.evaluate with the UNKNOWN check left out
EvaluateNoUnknownCheck(gtype, ins) ==
    CASE gtype = "AND" ->
            IF \A i \in DOMAIN ins : ins[i] = HIGH THEN HIGH ELSE LOW
      [] gtype = "OR" ->
            IF \E i \in DOMAIN ins : ins[i] = HIGH THEN HIGH ELSE LOW
      [] gtype = "NOT" -> IF ins[1] = LOW THEN HIGH ELSE LOW
      [] gtype = "NAND" ->
            IF \A i \in DOMAIN ins : ins[i] = HIGH THEN LOW ELSE HIGH
      [] gtype = "NOR" ->
            IF \E i \in DOMAIN ins : ins[i] = HIGH THEN LOW ELSE HIGH
      [] gtype = "XOR" -> IF HighCount(ins) % 2 = 1 THEN HIGH ELSE LOW
      [] gtype = "XNOR" -> IF HighCount(ins) % 2 = 1 THEN LOW ELSE HIGH
      [] gtype = "BUFFER" -> ins[1]
      [] OTHER -> UNKNOWN

\* LogicGate.evaluate
Evaluate(gtype, ins) ==
    IF UNKNOWN \in Range(ins) THEN UNKNOWN
    ELSE CASE gtype = "AND" ->
                IF \A i \in DOMAIN ins : ins[i] = HIGH THEN HIGH ELSE LOW
           [] gtype = "OR" ->
                IF \E i \in DOMAIN ins : ins[i] = HIGH THEN HIGH ELSE LOW
           [] gtype = "NOT" -> IF ins[1] = LOW THEN HIGH ELSE LOW
           [] gtype = "NAND" ->
                IF \A i \in DOMAIN ins : ins[i] = HIGH THEN LOW ELSE HIGH
           [] gtype = "NOR" ->
                IF \E i \in DOMAIN ins : ins[i] = HIGH THEN LOW ELSE HIGH
           [] gtype = "XOR" -> IF HighCount(ins) % 2 = 1 THEN HIGH ELSE LOW
           [] gtype = "XNOR" -> IF HighCount(ins) % 2 = 1 THEN LOW ELSE HIGH
           [] gtype = "BUFFER" -> ins[1]
           [] OTHER -> UNKNOWN

\* LogicGate.set_input
GateSetInput(g, input_index, value) ==
    IF 0 <= input_index /\ input_index < g.num_inputs
    THEN [g EXCEPT !.inputs[input_index + 1] = value]
    ELSE g

\* LogicGate.update: the gate after the call
GateUpdate(g, t) ==
    LET new_output == Evaluate(g.type, g.inputs)
    IN  IF new_output # g.output
        THEN [g EXCEPT !.output = new_output, !.last_update_time = t]
        ELSE g

\* LogicGate.update: its return value
GateUpdateChanged(g) == Evaluate(g.type, g.inputs) # g.output

----------------------------------------------------------------------------
(* Wire *)

\* Wire.__init__
NewWire(wid, from_gate, to_gate, to_input) ==
    [id |-> wid, from_gate |-> from_gate, to_gate |-> to_gate,
     to_input |-> to_input, signal |-> UNKNOWN]

----------------------------------------------------------------------------
(* DigitalCircuitSimulator.propagate *)

\* `if wire.from_gate in self.gates and wire.to_gate in self.gates`
WireLive(gs, w) == w.from_gate \in DOMAIN gs /\ w.to_gate \in DOMAIN gs

\* the wires whose set_input writes input i (counted from 1) of gate g
WiresInto(gs, ws, g, i) ==
    {k \in DOMAIN ws :
        WireLive(gs, ws[k]) /\ ws[k].to_gate = g /\ ws[k].to_input = i - 1}

\* the last wire of a set, in list order
LastWire(ks) == CHOOSE k \in ks : \A j \in ks : j <= k

\* the `for wire in self.wires` loops of propagate.  The loop reads gate
\* outputs and writes wire signals and gate inputs only, so each wire takes
\* the output its source has at entry, and an input written by several
\* wires keeps what the last of them in list order wrote.
PushWires(gs, ws) ==
    [gates |->
        [g \in DOMAIN gs |->
            [gs[g] EXCEPT !.inputs =
                [i \in DOMAIN gs[g].inputs |->
                    LET ks == WiresInto(gs, ws, g, i)
                    IN  IF ks = {} THEN gs[g].inputs[i]
                        ELSE gs[ws[LastWire(ks)].from_gate].output]]],
     wires |->
        [k \in DOMAIN ws |->
            IF WireLive(gs, ws[k])
            THEN [ws[k] EXCEPT !.signal = gs[ws[k].from_gate].output]
            ELSE ws[k]]]

\* `for gate in self.gates.values(): if gate.update(...): changes = True`
UpdateGates(gs, t) == [g \in DOMAIN gs |-> GateUpdate(gs[g], t)]

AnyGateChanged(gs) == \E g \in DOMAIN gs : GateUpdateChanged(gs[g])

\* a loop that makes one pass and stops
LoopCondOnePass(ch, it) == ch /\ it < 1

\* `while changes and iterations < max_iterations` with an off-by-one cap
LoopCondOffByOne(ch, it) == ch /\ it <= max_iterations

\* `while changes and iterations < max_iterations`
LoopCond(ch, it) == ch /\ it < max_iterations

\* one pass of the while loop: [gates, wires, changes]
PropagatePass(gs, ws, t) ==
    LET p == PushWires(UpdateGates(gs, t), ws)
    IN  [gates |-> p.gates, wires |-> p.wires, changes |-> AnyGateChanged(gs)]

\* `if iterations >= max_iterations: print(warning)`
WarnCond(it) == it >= max_iterations

----------------------------------------------------------------------------
(* DigitalCircuitSimulator: construction and the calls that build a circuit *)

NoFrame == [op |-> "none"]
NoGate == [type |-> "none"]
NoValue == [none |-> TRUE]

\* CircuitSimulationEngine.__init__
NewEngine == [convergence_tolerance |-> <<1, 1000000>>, max_iterations |-> 100]

\* a run that has not started: its simulator as DigitalCircuitSimulator.__init__
\* leaves it, every container its own
FreshRun ==
    [gates |-> EmptyDict, flip_flops |-> EmptyDict, wires |-> <<>>,
     inputs |-> EmptyDict, current_time |-> 0, pc |-> "idle", frame |-> NoFrame,
     results |-> <<>>, ret |-> NoValue, iterations |-> 0, changes |-> FALSE,
     warned |-> FALSE]

\* ConnectionManager.__init__ leaves no room; no broadcast() was called yet
NoBroadcast ==
    [pc |-> "idle", circuit_id |-> None, exclude |-> None, si_used |-> 0,
     attached |-> FALSE, mutated |-> FALSE, returned |-> {}, connection |-> None,
     disconnected |-> <<>>, attempted |-> {}, stayed |-> {}]

\* DigitalCircuitSimulator.__init__ (create_digital_simulator)
InitSimulator ==
    /\ engine = NewEngine
    /\ suspended = FreshRun
    /\ active_connections = EmptyDict
    /\ endpoints = EmptyDict
    /\ broadcast = NoBroadcast
    /\ gates = EmptyDict
    /\ flip_flops = EmptyDict
    /\ wires = <<>>
    /\ inputs = EmptyDict
    /\ current_time = 0
    /\ pc = "idle"
    /\ frame = NoFrame
    /\ results = <<>>
    /\ ret = NoValue
    /\ iterations = 0
    /\ changes = FALSE
    /\ warned = FALSE
    /\ eval_gate = NoGate
    /\ eval_out = "none"

\* no handler is running.  A session that called propagate() directly may go
\* on after it returned; a route handles one request on a simulator of its
\* own, which is dropped after the handler returned.
Idle == pc = "idle" \/ (pc = "returned" /\ frame.op = "propagate")

\* another simulator whose gates were the dictionary this simulator writes
OtherSharingGates(other, gs) == [other EXCEPT !.gates = gs]

\* the simulator of another run after this simulator's gates were written:
\* self.gates is a dictionary made in __init__, one for each instance
OtherSimulator(other, gs) == other

\* add_gate: ids are handed out in order, so no call replaces a gate
AddGate(gid, gtype, n) ==
    /\ pc = "idle"
    /\ gid \notin DOMAIN gates
    /\ \A g \in GateIds : g < gid => g \in DOMAIN gates
    /\ gates' = DictSet(gates, gid, NewGate(gtype, n))
    /\ suspended' = OtherSimulator(suspended, DictSet(gates, gid, NewGate(gtype, n)))
    /\ engine' = engine
    /\ UNCHANGED managerVars
    /\ UNCHANGED <<flip_flops, wires, inputs, current_time, pc, frame, results, ret,
                   propVars, evalVars>>

\* add_wire
AddWire(from_gate, to_gate, to_input) ==
    /\ pc = "idle"
    /\ Len(wires) < MaxWires
    /\ wires' = Append(wires, NewWire(Len(wires) + 1, from_gate, to_gate, to_input))
    /\ UNCHANGED sharedVars
    /\ UNCHANGED <<gates, flip_flops, inputs, current_time, pc, frame, results, ret,
                   propVars, evalVars>>

\* the routes' `sim.gates[gate_id].output = level` for a request input
ForceOutput(gid, level) ==
    /\ Idle
    /\ gid \in DOMAIN gates
    /\ gates[gid].output # level
    /\ gates' = [gates EXCEPT ![gid].output = level]
    /\ pc' = "idle"
    /\ UNCHANGED sharedVars
    /\ UNCHANGED <<flip_flops, wires, inputs, current_time, frame, results, ret,
                   propVars, evalVars>>

\* every gate is as add_gate left it
Fresh(gs) == \A g \in DOMAIN gs : gs[g] = NewGate(gs[g].type, gs[g].num_inputs)

----------------------------------------------------------------------------
(* propagate(), one pass of its while loop per step.  The handlers that    *)
(* call it (simulate, get_truth_table, simulate_clock_cycle) go on at the  *)
(* place AfterPropagate names for frame.op.                                *)

\* entry of propagate: the first `for wire in self.wires` loop and the
\* initialisation of changes and iterations
EnterPropagate(gs) ==
    /\ \E p \in {PushWires(gs, wires)} :
           /\ gates' = p.gates
           /\ wires' = p.wires
    /\ changes' = TRUE
    /\ iterations' = 0
    /\ warned' = FALSE
    /\ pc' = "propagate"

\* where the caller of propagate goes on
AfterPropagate(op) ==
    CASE op = "simulate" -> "simulate_record"
      [] op = "truth_table" -> "truth_table_read"
      [] op = "clock" -> "clock_update"
      [] OTHER -> "returned"

\* sim.propagate() called on its own
CallPropagate ==
    /\ Idle
    /\ EnterPropagate(gates)
    /\ frame' = [op |-> "propagate", fresh |-> Fresh(gates), capped |-> FALSE]
    /\ UNCHANGED sharedVars
    /\ UNCHANGED <<flip_flops, inputs, current_time, results, ret, evalVars>>

\* one iteration of the while loop
PropagateStep ==
    /\ pc = "propagate"
    /\ LoopCond(changes, iterations)
    /\ \E p \in {PropagatePass(gates, wires, current_time)} :
           /\ gates' = p.gates
           /\ wires' = p.wires
           /\ changes' = p.changes
    /\ iterations' = iterations + 1
    /\ UNCHANGED sharedVars
    /\ UNCHANGED <<flip_flops, inputs, current_time, pc, frame, results, ret, warned,
                   evalVars>>

\* the loop exit, the warning and the return.  frame.capped collects what
\* the run printed: whether one of its propagate() calls printed the warning.
PropagateReturn ==
    /\ pc = "propagate"
    /\ ~LoopCond(changes, iterations)
    /\ warned' = WarnCond(iterations)
    /\ frame' = [frame EXCEPT !.capped = @ \/ WarnCond(iterations)]
    /\ pc' = AfterPropagate(frame.op)
    /\ UNCHANGED sharedVars
    /\ UNCHANGED <<simVars, results, ret, iterations, changes, evalVars>>

----------------------------------------------------------------------------
(* A single LogicGate: evaluate() and update() on any input vector *)

GatesUnderTest ==
    {[type |-> t, num_inputs |-> Len(ins), inputs |-> ins, output |-> o,
      last_update_time |-> 0] :
        t \in GateType, ins \in UNION {[1..n -> LogicLevel] : n \in 1..MaxArity},
        o \in LogicLevel}

InitGate ==
    /\ engine = NewEngine
    /\ suspended = FreshRun
    /\ active_connections = EmptyDict
    /\ endpoints = EmptyDict
    /\ broadcast = NoBroadcast
    /\ gates = EmptyDict
    /\ flip_flops = EmptyDict
    /\ wires = <<>>
    /\ inputs = EmptyDict
    /\ current_time = 0
    /\ pc = "gate"
    /\ frame = NoFrame
    /\ results = <<>>
    /\ ret = NoValue
    /\ iterations = 0
    /\ changes = FALSE
    /\ warned = FALSE
    /\ eval_gate \in GatesUnderTest
    /\ eval_out = "none"

\* eval_gate.evaluate()
EvaluateGate ==
    /\ pc = "gate"
    /\ eval_out' = Evaluate(eval_gate.type, eval_gate.inputs)
    /\ pc' = "evaluated"
    /\ UNCHANGED sharedVars
    /\ UNCHANGED <<simVars, frame, results, ret, propVars, eval_gate>>

\* eval_gate.update(1)
UpdateGate ==
    /\ pc = "gate"
    /\ eval_gate' = GateUpdate(eval_gate, 1)
    /\ eval_out' = GateUpdateChanged(eval_gate)
    /\ pc' = "updated"
    /\ UNCHANGED sharedVars
    /\ UNCHANGED <<simVars, frame, results, ret, propVars>>

----------------------------------------------------------------------------
(* FlipFlop *)

\* FlipFlop.__init__
NewFlipFlop(edge_trigger) ==
    [edge_trigger |-> edge_trigger, d_input |-> UNKNOWN, clock |-> LOW,
     previous_clock |-> LOW, q_output |-> LOW, q_not_output |-> HIGH]

\* FlipFlop.set_d
FlipFlopSetD(ff, value) == [ff EXCEPT !.d_input = value]

\* FlipFlop.set_clock
FlipFlopSetClock(ff, value) ==
    [ff EXCEPT !.previous_clock = ff.clock, !.clock = value]

\* a flip-flop that follows the level of its clock instead of its edges
EdgeDetectedOnLevel(ff) ==
    CASE ff.edge_trigger = "rising" -> ff.clock = HIGH
      [] ff.edge_trigger = "falling" -> ff.clock = LOW
      [] OTHER -> FALSE

\* FlipFlop.update: edge_detected
EdgeDetected(ff) ==
    CASE ff.edge_trigger = "rising" ->
            ff.previous_clock = LOW /\ ff.clock = HIGH
      [] ff.edge_trigger = "falling" ->
            ff.previous_clock = HIGH /\ ff.clock = LOW
      [] OTHER -> FALSE

\* FlipFlop.update: the flip-flop after the call
FlipFlopUpdate(ff) ==
    IF EdgeDetected(ff) /\ ff.d_input # ff.q_output
    THEN [ff EXCEPT !.q_output = ff.d_input,
                    !.q_not_output = IF ff.d_input = LOW THEN HIGH ELSE LOW]
    ELSE ff

\* add_flip_flop: ids are handed out in order
AddFlipFlop(fid, edge_trigger) ==
    /\ pc = "idle"
    /\ fid \notin DOMAIN flip_flops
    /\ \A f \in FlipFlopIds : f < fid => f \in DOMAIN flip_flops
    /\ flip_flops' = DictSet(flip_flops, fid, NewFlipFlop(edge_trigger))
    /\ UNCHANGED sharedVars
    /\ UNCHANGED <<gates, wires, inputs, current_time, pc, frame, results, ret,
                   propVars, evalVars>>

\* sim.flip_flops[fid].set_d(value)
SetD(fid, value) ==
    /\ Idle
    /\ fid \in DOMAIN flip_flops
    /\ flip_flops[fid].d_input # value
    /\ flip_flops' = [flip_flops EXCEPT ![fid] = FlipFlopSetD(@, value)]
    /\ pc' = "idle"
    /\ UNCHANGED sharedVars
    /\ UNCHANGED <<gates, wires, inputs, current_time, frame, results, ret,
                   propVars, evalVars>>

\* sim.flip_flops[fid].set_clock(value)
SetClock(fid, value) ==
    /\ Idle
    /\ fid \in DOMAIN flip_flops
    /\ flip_flops' = [flip_flops EXCEPT ![fid] = FlipFlopSetClock(@, value)]
    /\ pc' = "idle"
    /\ UNCHANGED sharedVars
    /\ UNCHANGED <<gates, wires, inputs, current_time, frame, results, ret,
                   propVars, evalVars>>

\* sim.flip_flops[fid].update()
UpdateFlipFlop(fid) ==
    /\ Idle
    /\ fid \in DOMAIN flip_flops
    /\ flip_flops' = [flip_flops EXCEPT ![fid] = FlipFlopUpdate(@)]
    /\ pc' = "idle"
    /\ UNCHANGED sharedVars
    /\ UNCHANGED <<gates, wires, inputs, current_time, frame, results, ret,
                   propVars, evalVars>>

----------------------------------------------------------------------------
(* DigitalCircuitSimulator.simulate, one sample of its while loop per step *)

\* samples kept in the result list; a run that ends takes at most
\* MaxDuration + 1 of them
MaxSamples == MaxDuration + 2

\* times at or below TimeFloor are identified: the durations drawn are all
\* above it, so the loop condition cannot tell them apart
TimeFloor == -(MaxDuration + 2)

\* {gid: g.output.value for gid, g in self.gates.items()}
GateValues(gs) == [g \in DOMAIN gs |-> LevelValue(gs[g].output)]

\* {fid: ff.q_output.value for fid, ff in self.flip_flops.items()}
FlipFlopValues(ffs) == [f \in DOMAIN ffs |-> LevelValue(ffs[f].q_output)]

\* {name: level.value for name, level in self.inputs.items()}
InputValues(ins) == [n \in DOMAIN ins |-> LevelValue(ins[n])]

\* {w.id: w.signal.value for w in self.wires}
WireValues(ws) == [i \in DOMAIN ws |-> LevelValue(ws[i].signal)]

\* the `state` dict simulate records
SimState(t, ins, gs, ffs, ws) ==
    [time |-> t, inputs |-> InputValues(ins), gates |-> GateValues(gs),
     flip_flops |-> FlipFlopValues(ffs), wires |-> WireValues(ws)]

\* simulate(duration, time_step): entry
SimulateCall(duration, time_step) ==
    /\ pc = "idle"
    /\ results' = <<>>
    /\ current_time' = 0
    /\ frame' = [op |-> "simulate", duration |-> duration, time_step |-> time_step,
                 capped |-> FALSE]
    /\ pc' = "simulate"
    /\ ret' = NoValue
    /\ UNCHANGED sharedVars
    /\ UNCHANGED <<gates, flip_flops, wires, inputs, propVars, evalVars>>

\* `while self.current_time <= duration`
SampleCond(t, duration) == t <= duration

\* the loop head, condition true: self.propagate()
SimulateSample ==
    /\ pc = "simulate"
    /\ SampleCond(current_time, frame.duration)
    /\ EnterPropagate(gates)
    /\ UNCHANGED sharedVars
    /\ UNCHANGED <<flip_flops, inputs, current_time, frame, results, ret, evalVars>>

\* the rest of the loop body: record the state, advance the time
SimulateRecord ==
    /\ pc = "simulate_record"
    /\ results' =
         IF Len(results) < MaxSamples
         THEN Append(results, SimState(current_time, inputs, gates, flip_flops, wires))
         ELSE results
    /\ current_time' =
         IF current_time + frame.time_step < TimeFloor THEN TimeFloor
         ELSE current_time + frame.time_step
    /\ pc' = "simulate"
    /\ UNCHANGED sharedVars
    /\ UNCHANGED <<gates, flip_flops, wires, inputs, frame, ret, propVars, evalVars>>

\* the loop exit and the return value
SimulateReturn ==
    /\ pc = "simulate"
    /\ ~SampleCond(current_time, frame.duration)
    /\ ret' = [success |-> TRUE, simulation_type |-> "digital_logic",
               duration |-> frame.duration, time_step |-> frame.time_step,
               samples |-> Len(results), results |-> results]
    /\ pc' = "returned"
    /\ UNCHANGED sharedVars
    /\ UNCHANGED <<simVars, frame, results, propVars, evalVars>>

----------------------------------------------------------------------------
(* DigitalCircuitSimulator.get_truth_table, one row per round *)

\* 2 ** n
RECURSIVE Pow2(_)
Pow2(n) == IF n = 0 THEN 1 ELSE 2 * Pow2(n - 1)

\* the bit of a row kept for an input name, here bit j + 1 instead of bit j
BitShifted(i, j) == (i \div Pow2(j + 1)) % 2

\* (i >> j) & 1
Bit(i, j) == (i \div Pow2(j)) % 2

\* LogicLevel.HIGH if bit else LogicLevel.LOW
BitLevel(bit) == IF bit # 0 THEN HIGH ELSE LOW

\* `for j, input_name in enumerate(input_names)` of row i, from position j
\* on: set_input, the forced gate output, input_values
RECURSIVE SetCombination(_, _, _, _, _, _)
SetCombination(gs, ins, vals, names, i, j) ==
    IF j >= Len(names) THEN [gates |-> gs, inputs |-> ins, input_values |-> vals]
    ELSE LET input_name == names[j + 1]
             bit == Bit(i, j)
             level == BitLevel(bit)
         IN  SetCombination(
               IF input_name \in DOMAIN gs
               THEN [gs EXCEPT ![input_name].output = level] ELSE gs,
               DictSet(ins, input_name, level),
               DictSet(vals, input_name, bit),
               names, i, j + 1)

\* get_truth_table(input_names, output_names): entry
TruthTableCall(input_names, output_names) ==
    /\ pc = "idle"
    /\ results' = <<>>
    /\ frame' = [op |-> "truth_table", input_names |-> input_names,
                 output_names |-> output_names, i |-> 0,
                 input_values |-> EmptyDict, capped |-> FALSE]
    /\ pc' = "truth_table"
    /\ ret' = NoValue
    /\ UNCHANGED sharedVars
    /\ UNCHANGED <<simVars, propVars, evalVars>>

\* `for i in range(num_combinations)`
RowCond(i, input_names) == i < Pow2(Len(input_names))

\* the loop head, a row left: set the input combination, self.propagate()
TruthTableRow ==
    /\ pc = "truth_table"
    /\ RowCond(frame.i, frame.input_names)
    /\ \E c \in {SetCombination(gates, inputs, EmptyDict, frame.input_names,
                                frame.i, 0)} :
           /\ inputs' = c.inputs
           /\ frame' = [frame EXCEPT !.input_values = c.input_values]
           /\ EnterPropagate(c.gates)
    /\ UNCHANGED sharedVars
    /\ UNCHANGED <<flip_flops, current_time, results, ret, evalVars>>

\* `for output_name in output_names: if output_name in self.gates`
OutputValues(gs, output_names) ==
    [o \in Range(output_names) \cap DOMAIN gs |-> LevelValue(gs[o].output)]

\* the rest of the loop body: read the outputs, append the row
TruthTableRead ==
    /\ pc = "truth_table_read"
    /\ results' = Append(results,
                         [inputs |-> frame.input_values,
                          outputs |-> OutputValues(gates, frame.output_names)])
    /\ frame' = [frame EXCEPT !.i = @ + 1]
    /\ pc' = "truth_table"
    /\ UNCHANGED sharedVars
    /\ UNCHANGED <<simVars, ret, propVars, evalVars>>

\* the loop exit: return truth_table
TruthTableReturn ==
    /\ pc = "truth_table"
    /\ ~RowCond(frame.i, frame.input_names)
    /\ ret' = results
    /\ pc' = "returned"
    /\ UNCHANGED sharedVars
    /\ UNCHANGED <<simVars, frame, results, propVars, evalVars>>

----------------------------------------------------------------------------
(* DigitalCircuitSimulator.simulate_clock_cycle, one clock edge per round *)

\* simulate_clock_cycle(clock_signal, num_cycles): entry
ClockCall(clock_signal, num_cycles) ==
    /\ pc = "idle"
    /\ results' = <<>>
    /\ frame' = [op |-> "clock", clock_signal |-> clock_signal,
                 num_cycles |-> num_cycles, cycle |-> 0, edge |-> "rising",
                 capped |-> FALSE]
    /\ pc' = "clock"
    /\ ret' = NoValue
    /\ UNCHANGED sharedVars
    /\ UNCHANGED <<simVars, propVars, evalVars>>

\* `for cycle in range(num_cycles)`
CycleCond(cycle, num_cycles) == cycle < num_cycles

\* the level set_input gives the clock at an edge
EdgeLevel(edge) == IF edge = "rising" THEN HIGH ELSE LOW

\* an edge of a cycle: self.set_input(clock_signal, level), self.propagate()
ClockEdge ==
    /\ pc = "clock"
    /\ CycleCond(frame.cycle, frame.num_cycles)
    /\ inputs' = DictSet(inputs, frame.clock_signal, EdgeLevel(frame.edge))
    /\ EnterPropagate(gates)
    /\ UNCHANGED sharedVars
    /\ UNCHANGED <<flip_flops, current_time, frame, results, ret, evalVars>>

\* `for ff in self.flip_flops.values(): ff.update()`
UpdateFlipFlops(ffs) == [f \in DOMAIN ffs |-> FlipFlopUpdate(ffs[f])]

\* the `state` dict simulate_clock_cycle records
ClockState(cycle, edge, gs, ffs) ==
    [cycle |-> cycle, edge |-> edge, gates |-> GateValues(gs),
     flip_flops |-> FlipFlopValues(ffs)]

\* the state recorded for an edge, taken before the flip-flops are updated
ClockSnapshotEarly(cycle, edge, gs, ffs_before, ffs_after) ==
    ClockState(cycle, edge, gs, ffs_before)

\* the state recorded for an edge: after propagate and the flip-flop updates
ClockSnapshot(cycle, edge, gs, ffs_before, ffs_after) ==
    ClockState(cycle, edge, gs, ffs_after)

\* the edge that follows: falling after rising, then the next cycle
NextEdge(edge) == IF edge = "rising" THEN "falling" ELSE "rising"

\* the rest of an edge: update the flip-flops, record the state
ClockUpdate ==
    /\ pc = "clock_update"
    /\ flip_flops' = UpdateFlipFlops(flip_flops)
    /\ results' = Append(results,
                         ClockSnapshot(frame.cycle, frame.edge, gates, flip_flops,
                                       UpdateFlipFlops(flip_flops)))
    /\ frame' = [frame EXCEPT !.edge = NextEdge(@),
                              !.cycle = IF frame.edge = "falling" THEN @ + 1 ELSE @]
    /\ pc' = "clock"
    /\ UNCHANGED sharedVars
    /\ UNCHANGED <<gates, wires, inputs, current_time, ret, propVars, evalVars>>

\* the loop exit: return results
ClockReturn ==
    /\ pc = "clock"
    /\ ~CycleCond(frame.cycle, frame.num_cycles)
    /\ ret' = results
    /\ pc' = "returned"
    /\ UNCHANGED sharedVars
    /\ UNCHANGED <<simVars, frame, results, propVars, evalVars>>

----------------------------------------------------------------------------
(* SpecProp: circuits of up to two gates, built, forced and propagated,    *)
(* and single gates evaluated.                                             *)

PropGateIds == {1, 2}

\* the (type, num_inputs) pairs circuits are built from
GateKinds ==
    {<<"NOT", 1>>, <<"BUFFER", 1>>, <<"AND", 2>>, <<"NOR", 2>>, <<"XOR", 2>>,
     <<"D_FLIP_FLOP", 1>>, <<"AND", 0>>}

InitProp == InitSimulator \/ InitGate

NextProp ==
    \/ \E gid \in PropGateIds, k \in GateKinds : AddGate(gid, k[1], k[2])
    \/ \E f \in PropGateIds, t \in PropGateIds, i \in 0..1 : AddWire(f, t, i)
    \/ \E gid \in PropGateIds, l \in {LOW, HIGH} : ForceOutput(gid, l)
    \/ CallPropagate
    \/ PropagateStep
    \/ PropagateReturn
    \/ EvaluateGate
    \/ UpdateGate

SpecProp == InitProp /\ [][NextProp]_vars

----------------------------------------------------------------------------
(* SpecChain: propagate() on a chain of buffers as add_gate and add_wire   *)
(* build it: gate 1 feeds itself and gate 2, gate i feeds gate i + 1.  A   *)
(* level forced on gate 1 takes one pass per gate to reach the end.        *)

MaxChain == 101

ChainLengths == (MaxChain - 2)..MaxChain

\* sim.add_gate(i, GateType.BUFFER, 1) for i = 1..n
ChainGates(n) == [i \in 1..n |-> NewGate("BUFFER", 1)]

\* sim.add_wire: 1 -> 1, then i -> i + 1 for i = 1..n-1
ChainWires(n) ==
    [k \in 1..n |->
        IF k = 1 THEN NewWire(1, 1, 1, 0) ELSE NewWire(k, k - 1, k, 0)]

InitChain ==
    /\ \E n \in ChainLengths :
          /\ gates = ChainGates(n)
          /\ wires = ChainWires(n)
    /\ engine = NewEngine
    /\ suspended = FreshRun
    /\ active_connections = EmptyDict
    /\ endpoints = EmptyDict
    /\ broadcast = NoBroadcast
    /\ flip_flops = EmptyDict
    /\ inputs = EmptyDict
    /\ current_time = 0
    /\ pc = "idle"
    /\ frame = NoFrame
    /\ results = <<>>
    /\ ret = NoValue
    /\ iterations = 0
    /\ changes = FALSE
    /\ warned = FALSE
    /\ eval_gate = NoGate
    /\ eval_out = "none"

NextChain ==
    \/ \E l \in {LOW, HIGH} : ForceOutput(1, l)
    \/ CallPropagate
    \/ PropagateStep
    \/ PropagateReturn

SpecChain == InitChain /\ [][NextChain]_vars

----------------------------------------------------------------------------
(* SpecLoop: propagate() alone, on circuits of up to two gates drawn from  *)
(* fewer kinds, for the properties of whole behaviours.                    *)

LoopKinds == {<<"NOT", 1>>, <<"BUFFER", 1>>, <<"NOR", 2>>}

NextLoop ==
    \/ \E gid \in PropGateIds, k \in LoopKinds : AddGate(gid, k[1], k[2])
    \/ \E f \in PropGateIds, t \in PropGateIds, i \in 0..1 : AddWire(f, t, i)
    \/ \E gid \in PropGateIds, l \in {LOW, HIGH} : ForceOutput(gid, l)
    \/ CallPropagate
    \/ PropagateStep
    \/ PropagateReturn

\* a call of propagate runs to its return: nothing suspends it
SpecLoop ==
    InitSimulator /\ [][NextLoop]_vars
    /\ WF_vars(PropagateStep) /\ WF_vars(PropagateReturn)

----------------------------------------------------------------------------
(* Spec: simulate() on circuits of one gate and one flip-flop, as the      *)
(* /api/digital/simulate route drives it: build, force the request's      *)
(* inputs onto gate outputs, simulate.  Wires may name a gate that is not  *)
(* in the circuit.                                                         *)

\* duration and time_step are floats the request model leaves unconstrained
Durations == -1..MaxDuration
TimeSteps == -1..MaxDuration

NextSimulate ==
    \/ \E k \in GateKinds : AddGate(1, k[1], k[2])
    \/ \E f \in PropGateIds, i \in 0..1 : AddWire(f, 1, i)
    \/ \E e \in {"rising", "falling"} : AddFlipFlop(1, e)
    \/ \E l \in {LOW, HIGH} : ForceOutput(1, l)
    \/ \E d \in Durations, ts \in TimeSteps : SimulateCall(d, ts)
    \/ SimulateSample
    \/ PropagateStep
    \/ PropagateReturn
    \/ SimulateRecord
    \/ SimulateReturn

\* a call of simulate runs on until it returns: nothing suspends it
Spec ==
    InitSimulator /\ [][NextSimulate]_vars
    /\ WF_vars(SimulateSample) /\ WF_vars(PropagateStep) /\ WF_vars(PropagateReturn)
    /\ WF_vars(SimulateRecord) /\ WF_vars(SimulateReturn)

----------------------------------------------------------------------------
(* SpecRuns: two /api/digital/simulate requests, each with a simulator of  *)
(* its own, handled in any interleaving: the handler that runs is in the   *)
(* variables of the simulator, the other one is kept in `suspended`.       *)

\* the run that is being executed
ActiveRun ==
    [gates |-> gates, flip_flops |-> flip_flops, wires |-> wires,
     inputs |-> inputs, current_time |-> current_time, pc |-> pc, frame |-> frame,
     results |-> results, ret |-> ret, iterations |-> iterations,
     changes |-> changes, warned |-> warned]

\* the scheduler takes the other handler up
Switch ==
    /\ suspended # ActiveRun
    /\ gates' = suspended.gates
    /\ flip_flops' = suspended.flip_flops
    /\ wires' = suspended.wires
    /\ inputs' = suspended.inputs
    /\ current_time' = suspended.current_time
    /\ pc' = suspended.pc
    /\ frame' = suspended.frame
    /\ results' = suspended.results
    /\ ret' = suspended.ret
    /\ iterations' = suspended.iterations
    /\ changes' = suspended.changes
    /\ warned' = suspended.warned
    /\ suspended' = ActiveRun
    /\ UNCHANGED <<engine, evalVars, managerVars>>

RunKinds == {<<"BUFFER", 1>>, <<"AND", 2>>}

NextRuns ==
    \/ \E k \in RunKinds : AddGate(1, k[1], k[2])
    \/ AddWire(1, 1, 0)
    \/ \E l \in {LOW, HIGH} : ForceOutput(1, l)
    \/ \E d \in 0..1 : SimulateCall(d, 1)
    \/ SimulateSample
    \/ PropagateStep
    \/ PropagateReturn
    \/ SimulateRecord
    \/ SimulateReturn
    \/ Switch

SpecRuns == InitSimulator /\ [][NextRuns]_vars

----------------------------------------------------------------------------
(* SpecTable: get_truth_table() as the /api/digital/truth-table route      *)
(* drives it, on circuits of up to three gates: gates 1 and 2 are buffers,  *)
(* gate 3 combines.  Name 0 names no gate.                                 *)

TableNames == {0, 1, 2}

\* the lists of at most n names
NameLists(n) == UNION {[1..k -> TableNames] : k \in 0..n}

SourceKinds == {<<"BUFFER", 1>>}
SinkKinds == {<<"AND", 2>>, <<"NOT", 1>>, <<"XOR", 2>>}

NextTable ==
    \/ \E gid \in {1, 2}, k \in SourceKinds : AddGate(gid, k[1], k[2])
    \/ \E k \in SinkKinds : AddGate(3, k[1], k[2])
    \/ \E f \in GateIds, t \in GateIds, i \in 0..1 : AddWire(f, t, i)
    \/ \E ns \in NameLists(MaxNames), o \in {2, 3} : TruthTableCall(ns, <<o>>)
    \/ TruthTableRow
    \/ PropagateStep
    \/ PropagateReturn
    \/ TruthTableRead
    \/ TruthTableReturn

SpecTable == InitSimulator /\ [][NextTable]_vars

----------------------------------------------------------------------------
(* SpecFeedback: get_truth_table() called twice on a ring of NOT or BUFFER *)
(* gates as add_gate and add_wire build it: gate i feeds gate i + 1 and    *)
(* the last gate feeds gate 1.                                             *)

MaxRing == 3

\* sim.add_gate(i, kind, 1) for i = 1..n
RingGates(n, kind) == [i \in 1..n |-> NewGate(kind, 1)]

\* sim.add_wire(i, i, 0, i % n + 1, 0) for i = 1..n
RingWires(n) == [k \in 1..n |-> NewWire(k, k, (k % n) + 1, 0)]

InitFeedback ==
    /\ \E n \in 1..MaxRing, kind \in {"NOT", "BUFFER"} :
          /\ gates = RingGates(n, kind)
          /\ wires = RingWires(n)
    /\ engine = NewEngine
    /\ suspended = FreshRun
    /\ active_connections = EmptyDict
    /\ endpoints = EmptyDict
    /\ broadcast = NoBroadcast
    /\ flip_flops = EmptyDict
    /\ inputs = EmptyDict
    /\ current_time = 0
    /\ pc = "idle"
    /\ frame = NoFrame
    /\ results = <<>>
    /\ ret = NoValue
    /\ iterations = 0
    /\ changes = FALSE
    /\ warned = FALSE
    /\ eval_gate = NoGate
    /\ eval_out = "none"

\* get_truth_table called again with the arguments of the call that has
\* returned; frame.first keeps the table that call returned
TruthTableAgain ==
    /\ pc = "returned"
    /\ frame.op = "truth_table"
    /\ "first" \notin DOMAIN frame
    /\ results' = <<>>
    /\ frame' = [op |-> "truth_table", input_names |-> frame.input_names,
                 output_names |-> frame.output_names, i |-> 0,
                 input_values |-> EmptyDict, capped |-> FALSE, first |-> ret]
    /\ pc' = "truth_table"
    /\ ret' = NoValue
    /\ UNCHANGED sharedVars
    /\ UNCHANGED <<simVars, propVars, evalVars>>

NextFeedback ==
    \/ /\ pc = "idle"
       /\ \E ns \in NameLists(MaxNames), o \in 1..MaxRing : TruthTableCall(ns, <<o>>)
    \/ TruthTableAgain
    \/ TruthTableRow
    \/ PropagateStep
    \/ PropagateReturn
    \/ TruthTableRead
    \/ TruthTableReturn

SpecFeedback == InitFeedback /\ [][NextFeedback]_vars

----------------------------------------------------------------------------
(* SpecClock: simulate_clock_cycle() on a circuit of one flip-flop and at  *)
(* most one gate.  Clock name 0 names no gate.                             *)

ClockKinds == {<<"NOT", 1>>, <<"BUFFER", 1>>}

NextClock ==
    \/ \E k \in ClockKinds : AddGate(1, k[1], k[2])
    \/ AddWire(1, 1, 0)
    \/ \E l \in {LOW, HIGH} : ForceOutput(1, l)
    \/ \E e \in {"rising", "falling"} : AddFlipFlop(1, e)
    \/ \E l \in LogicLevel : SetD(1, l)
    \/ \E l \in {LOW, HIGH} : SetClock(1, l)
    \/ UpdateFlipFlop(1)
    \/ \E c \in {0, 1}, n \in 0..MaxCycles : ClockCall(c, n)
    \/ ClockEdge
    \/ PropagateStep
    \/ PropagateReturn
    \/ ClockUpdate
    \/ ClockReturn

SpecClock == InitSimulator /\ [][NextClock]_vars

----------------------------------------------------------------------------
(* Exact arithmetic for the MNA system.  The engine computes in float64;   *)
(* here a number is a fraction <<numerator, denominator>> in lowest terms  *)
(* with a positive denominator, so sums and quotients carry no rounding.   *)

RECURSIVE Gcd(_, _)
Gcd(a, b) == IF b = 0 THEN a ELSE Gcd(b, a % b)

AbsInt(a) == IF a < 0 THEN -a ELSE a

\* the fraction n / d in lowest terms (d # 0)
Frac(n, d) ==
    LET g == Gcd(AbsInt(n), AbsInt(d))
        s == IF d < 0 THEN -1 ELSE 1
    IN  <<(s * n) \div g, (s * d) \div g>>

Zero == <<0, 1>>
One == <<1, 1>>
FromInt(a) == <<a, 1>>

FAdd(x, y) == Frac(x[1] * y[2] + y[1] * x[2], x[2] * y[2])
FSub(x, y) == Frac(x[1] * y[2] - y[1] * x[2], x[2] * y[2])
FMul(x, y) == Frac(x[1] * y[1], x[2] * y[2])
FDiv(x, y) == Frac(x[1] * y[2], x[2] * y[1])
FAbs(x) == <<AbsInt(x[1]), x[2]>>

\* np.zeros((n, n)) with a column n + 1 holding np.zeros(n): the system G | I
ZeroSystem(n) == [r \in 1..n |-> [c \in 1..(n + 1) |-> Zero]]

\* A[r, c] += x, A[r, c] -= x and A[r, c] = x
AddAt(A, r, c, x) == [A EXCEPT ![r][c] = FAdd(@, x)]
SubAt(A, r, c, x) == [A EXCEPT ![r][c] = FSub(@, x)]
SetAt(A, r, c, x) == [A EXCEPT ![r][c] = x]

\* the rows at or below k with a nonzero entry in column k
PivotRows(A, n, k) == {r \in k..n : A[r][k] # Zero}

\* one column of the elimination: bring a pivot to row k, scale it to 1 and
\* clear column k in every other row
Eliminate(A, n, k, p) ==
    LET swapped == [A EXCEPT ![k] = A[p], ![p] = A[k]]
        pivot == swapped[k][k]
        prow == [c \in 1..(n + 1) |-> FDiv(swapped[k][c], pivot)]
    IN  [r \in 1..n |->
            IF r = k THEN prow
            ELSE [c \in 1..(n + 1) |->
                     FSub(swapped[r][c], FMul(swapped[r][k], prow[c]))]]

\* the pivot row of column k: the first row at or below k with a nonzero
\* entry (exact arithmetic: any nonzero pivot gives the same solution)
PivotRow(A, n, k) ==
    CHOOSE r \in PivotRows(A, n, k) : \A q \in PivotRows(A, n, k) : r <= q

----------------------------------------------------------------------------
(* CircuitSimulationEngine: _build_node_map and simulate_dc.  The engine   *)
(* keeps no state between calls: a call lives in `frame` and `ret`.        *)

MaxComponents == 2
MaxEngineWires == 1

\* a component dict: id, type, the number of entries of "terminals", and
\* the value of its property (props.resistance, props.voltage)
Component(id, type, terminals, value) ==
    [id |-> id, type |-> type, terminals |-> terminals, value |-> value]

\* a wire dict; comp_shape tells what "comp" holds: a component dict
\* ({"id": ...}) or a bare component id
EngineWire(comp_shape, from_comp, from_term, to_comp, to_term) ==
    [comp_shape |-> comp_shape, from_comp |-> from_comp, from_term |-> from_term,
     to_comp |-> to_comp, to_term |-> to_term]

\* the key of the ground entry of node_map: the ground component's id
GroundKey(comp_id) == <<comp_id, -1>>

\* f"{comp_id}_{term_idx}"
TermKey(comp_id, term_idx) == <<comp_id, term_idx>>

\* `for component in components: if type == "ground": ...; break`
RECURSIVE FindGround(_, _)
FindGround(components, k) ==
    IF k > Len(components) THEN None
    ELSE IF components[k].type = "ground" THEN components[k].id
    ELSE FindGround(components, k + 1)

\* the terminals of one component, from term_idx on
RECURSIVE AssignTerminals(_, _, _, _)
AssignTerminals(nm, next_node, component, term_idx) ==
    IF term_idx >= component.terminals THEN [node_map |-> nm, next_node |-> next_node]
    ELSE LET term_key == TermKey(component.id, term_idx)
         IN  IF term_key \notin DOMAIN nm
             THEN AssignTerminals(DictSet(nm, term_key, next_node + 1),
                                  next_node + 1, component, term_idx + 1)
             ELSE AssignTerminals(nm, next_node, component, term_idx + 1)

\* `for component in components`: assign node numbers, from component k on
RECURSIVE AssignNodes(_, _, _, _, _)
AssignNodes(nm, next_node, ground_node, components, k) ==
    IF k > Len(components) THEN nm
    ELSE IF components[k].id = ground_node
         THEN AssignNodes(nm, next_node, ground_node, components, k + 1)
         ELSE LET a == AssignTerminals(nm, next_node, components[k], 0)
              IN  AssignNodes(a.node_map, a.next_node, ground_node, components, k + 1)

\* node_map before the wires are merged
InitialNodeMap(components) ==
    LET ground_node == FindGround(components, 1)
        nm == IF ground_node = None THEN EmptyDict
              ELSE DictSet(EmptyDict, GroundKey(ground_node), 0)
    IN  AssignNodes(nm, 0, ground_node, components, 1)

Min(a, b) == IF a <= b THEN a ELSE b

\* the body of `for wire in wires` for a wire whose "comp" values are dicts
MergeWire(nm, wire) ==
    LET from_key == TermKey(wire.from_comp, wire.from_term)
        to_key == TermKey(wire.to_comp, wire.to_term)
    IN  IF from_key \in DOMAIN nm /\ to_key \in DOMAIN nm
        THEN LET min_node == Min(nm[from_key], nm[to_key])
             IN  [nm EXCEPT ![from_key] = min_node, ![to_key] = min_node]
        ELSE nm

\* wire.get("from", {}).get("comp", {}).get("id") raises AttributeError when
\* "comp" holds a bare id
WireRaises(wire) == wire.comp_shape = "id"

\* simulate_dc(components, wires): entry, and _build_node_map up to the
\* wire loop
SimulateDcCall(components, ws, empty_solve) ==
    /\ pc = "idle"
    /\ frame' = [op |-> "dc", components |-> components, wires |-> ws,
                 empty_solve |-> empty_solve, A |-> <<>>, G |-> <<>>,
                 c |-> 1, col |-> 1,
                 ground_node |-> FindGround(components, 1),
                 node_map |-> InitialNodeMap(components), w |-> 1,
                 solve_attempted |-> FALSE]
    /\ pc' = "merge_wires"
    /\ ret' = NoValue
    /\ UNCHANGED sharedVars
    /\ UNCHANGED <<simVars, results, propVars, evalVars>>

\* simulate_dc called again on the same engine with the arguments of the
\* call that has just ended; frame.first keeps what that call returned
RepeatDcCall ==
    /\ pc \in {"returned", "raised"}
    /\ frame.op = "dc"
    /\ "first" \notin DOMAIN frame
    /\ frame' = [op |-> "dc", components |-> frame.components, wires |-> frame.wires,
                 empty_solve |-> frame.empty_solve, A |-> <<>>, G |-> <<>>,
                 c |-> 1, col |-> 1,
                 ground_node |-> FindGround(frame.components, 1),
                 node_map |-> InitialNodeMap(frame.components), w |-> 1,
                 solve_attempted |-> FALSE,
                 first |-> [pc |-> pc, ret |-> ret, components |-> frame.components,
                            wires |-> frame.wires]]
    /\ pc' = "merge_wires"
    /\ ret' = NoValue
    /\ UNCHANGED sharedVars
    /\ UNCHANGED <<simVars, results, propVars, evalVars>>

\* one round of `for wire in wires`
MergeStep ==
    /\ pc = "merge_wires"
    /\ frame.w <= Len(frame.wires)
    /\ IF WireRaises(frame.wires[frame.w])
       THEN /\ ret' = [raised |-> "AttributeError"]
            /\ pc' = "raised"
            /\ frame' = frame
       ELSE /\ frame' = [frame EXCEPT
                           !.node_map = MergeWire(@, frame.wires[frame.w]),
                           !.w = @ + 1]
            /\ pc' = "merge_wires"
            /\ ret' = ret
    /\ UNCHANGED sharedVars
    /\ UNCHANGED <<simVars, results, propVars, evalVars>>

\* where simulate_dc returns to: its caller, simulate_transient's loop or
\* run_simulation
AfterDc(op) ==
    CASE op = "transient" -> "transient_store"
      [] op = "run" -> "run_store"
      [] OTHER -> "returned"

\* the result simulate_dc returns without a ground node
NoGroundResult ==
    [success |-> FALSE, error |-> "No ground node found",
     voltages |-> EmptyDict, currents |-> EmptyDict]

\* n = num_nodes + num_vsources, the dimension of G
Cardinal(seq, type) == Cardinality({k \in DOMAIN seq : seq[k].type = type})

MatrixSize(components, nm) ==
    (Cardinality(DOMAIN nm) - 1) + Cardinal(components, "battery")

\* an engine whose fields record that a call was made
SelfCountingCalls(self) == [self EXCEPT !.max_iterations = @ - 1]

\* the engine object after simulate_dc: the method assigns no attribute of
\* self
SelfAfterDc(self) == self

\* `if ground_node is None`
GroundMissing(ground_node) == ground_node = None

\* _build_node_map returns; the ground check of simulate_dc
GroundCheck ==
    /\ pc = "merge_wires"
    /\ frame.w > Len(frame.wires)
    /\ IF GroundMissing(frame.ground_node)
       THEN ret' = NoGroundResult /\ pc' = AfterDc(frame.op) /\ frame' = frame
       ELSE /\ ret' = ret
            /\ pc' = "assemble"
            /\ frame' = [frame EXCEPT
                            !.A = ZeroSystem(MatrixSize(frame.components,
                                                        frame.node_map)),
                            !.c = 1, !.col = 1]
    /\ engine' = SelfAfterDc(engine)
    /\ UNCHANGED <<suspended, managerVars>>
    /\ UNCHANGED <<simVars, results, propVars, evalVars>>

\* a result that reports success where the solve raised
SingularAsSuccess ==
    [success |-> TRUE, voltages |-> EmptyDict, currents |-> EmptyDict]

\* the result simulate_dc returns when linalg.solve raises
SingularResult ==
    [success |-> FALSE, error |-> "Singular matrix - cannot solve circuit",
     voltages |-> EmptyDict, currents |-> EmptyDict]

\* voltage_sources = [c for c in components if c.get("type") == "battery"]
VoltageSources(components) == SelectSeq(components, LAMBDA c : c.type = "battery")

\* list.index(x), 0-based: the first position holding a value equal to x
IndexOf(seq, x) ==
    (CHOOSE j \in 1..Len(seq) :
         seq[j] = x /\ \A i \in 1..(j - 1) : seq[i] # x) - 1

\* node_map.get(f"{comp_id}_{term}", 0)
NodeOf(nm, comp_id, term) ==
    IF TermKey(comp_id, term) \in DOMAIN nm THEN nm[TermKey(comp_id, term)] ELSE 0

\* g = 1.0 / r if r > 0 else 0
Conductance(r) == IF r > 0 THEN Frac(1, r) ELSE Zero

\* _add_component_to_mna, resistor branch
AddResistor(A, component, nm) ==
    LET n1 == NodeOf(nm, component.id, 0)
        n2 == NodeOf(nm, component.id, 1)
        g == Conductance(component.value)
        A1 == IF n1 > 0 THEN AddAt(A, n1, n1, g) ELSE A
        A2 == IF n1 > 0 /\ n2 > 0 THEN SubAt(A1, n1, n2, g) ELSE A1
        A3 == IF n2 > 0 THEN AddAt(A2, n2, n2, g) ELSE A2
    IN  IF n2 > 0 /\ n1 > 0 THEN SubAt(A3, n2, n1, g) ELSE A3

\* _add_component_to_mna, battery branch; n is G.shape[0], column n + 1 is I
AddBattery(A, component, nm, voltage_sources, n) ==
    LET n1 == NodeOf(nm, component.id, 0)
        n2 == NodeOf(nm, component.id, 1)
        vs_idx == IndexOf(voltage_sources, component)
        num_nodes == n - Len(voltage_sources)
        row == num_nodes + vs_idx + 1
        A1 == IF n1 > 0 THEN AddAt(AddAt(A, n1, row, One), row, n1, One) ELSE A
        A2 == IF n2 > 0 THEN SubAt(SubAt(A1, n2, row, One), row, n2, One) ELSE A1
    IN  SetAt(A2, row, n + 1, FromInt(component.value))

\* _add_component_to_mna
AddComponentToMna(A, component, nm, voltage_sources, n) ==
    CASE component.type = "resistor" -> AddResistor(A, component, nm)
      [] component.type = "battery" -> AddBattery(A, component, nm, voltage_sources, n)
      [] OTHER -> A

\* one round of `for component in components: self._add_component_to_mna(...)`
AssembleStep ==
    /\ pc = "assemble"
    /\ frame.c <= Len(frame.components)
    /\ frame' = [frame EXCEPT
                    !.A = AddComponentToMna(@, frame.components[frame.c],
                              frame.node_map, VoltageSources(frame.components),
                              MatrixSize(frame.components, frame.node_map)),
                    !.c = @ + 1]
    /\ UNCHANGED sharedVars
    /\ UNCHANGED <<simVars, pc, results, ret, propVars, evalVars>>

\* the keys of the voltages and currents dicts: f"node_{node_id}" and comp_id
NodeName(key) == <<"node", key[1], key[2]>>
CompName(comp_id) == <<"comp", comp_id, 0>>

\* _get_component_voltage
ComponentVoltage(component, V, nm) ==
    LET n1 == NodeOf(nm, component.id, 0)
        n2 == NodeOf(nm, component.id, 1)
        v1 == IF n1 > 0 THEN V[n1] ELSE Zero
        v2 == IF n2 > 0 THEN V[n2] ELSE Zero
    IN  FSub(v1, v2)

\* i = v / r if r > 0 else 0
ResistorCurrent(v, r) == IF r > 0 THEN FDiv(v, FromInt(r)) ELSE Zero

\* the positions of the components simulate_dc reports on
Measured(components) ==
    {k \in DOMAIN components : components[k].type \in {"resistor", "battery"}}

\* the voltages dict of a solved run
Voltages(components, nm, V) ==
    LET nodes == {key \in DOMAIN nm : nm[key] > 0}
        at(name) ==
            IF name[1] = "node" THEN V[nm[<<name[2], name[3]>>]]
            ELSE LET c == components[CHOOSE k \in Measured(components) :
                                         components[k].id = name[2]]
                 IN  IF c.type = "resistor" THEN FAbs(ComponentVoltage(c, V, nm))
                     ELSE FromInt(c.value)
    IN  [name \in {NodeName(key) : key \in nodes}
                  \cup {CompName(components[k].id) : k \in Measured(components)}
            |-> at(name)]

\* the currents dict of a solved run
Currents(components, nm, V, num_nodes) ==
    [name \in {CompName(components[k].id) : k \in Measured(components)} |->
        LET c == components[CHOOSE k \in Measured(components) :
                                components[k].id = name[2]]
        IN  IF c.type = "resistor"
            THEN FAbs(ResistorCurrent(ComponentVoltage(c, V, nm), c.value))
            ELSE FAbs(V[num_nodes + IndexOf(VoltageSources(components), c) + 1])]

\* the result simulate_dc returns after a solve
SolvedResult(components, nm, V, num_nodes) ==
    [success |-> TRUE,
     voltages |-> Voltages(components, nm, V),
     currents |-> Currents(components, nm, V, num_nodes),
     node_voltages |-> Voltages(components, nm, V)]

\* the assembly is done: linalg.solve(G, I) is called (frame.G keeps the
\* system as assembled, frame.A is the copy the elimination works on)
DcSolve ==
    /\ pc = "assemble"
    /\ frame.c > Len(frame.components)
    /\ frame' = [frame EXCEPT !.solve_attempted = TRUE, !.col = 1, !.G = frame.A]
    /\ pc' = "eliminate"
    /\ UNCHANGED sharedVars
    /\ UNCHANGED <<simVars, results, ret, propVars, evalVars>>

\* linalg.solve, one column of the elimination
EliminateStep ==
    /\ pc = "eliminate"
    /\ \E n \in {MatrixSize(frame.components, frame.node_map)} :
          /\ frame.col <= n
          /\ PivotRows(frame.A, n, frame.col) # {}
          /\ frame' = [frame EXCEPT
                          !.A = Eliminate(@, n, frame.col,
                                          PivotRow(frame.A, n, frame.col)),
                          !.col = @ + 1]
    /\ UNCHANGED sharedVars
    /\ UNCHANGED <<simVars, pc, results, ret, propVars, evalVars>>

\* linalg.solve raises: a column without a pivot (LinAlgError), or an empty
\* system where the installed library rejects it
SolveRaises(A, n, col, empty_solve) ==
    \/ n = 0 /\ empty_solve = "raises"
    \/ col <= n /\ PivotRows(A, n, col) = {}

\* the `except:` of simulate_dc
SolveFails ==
    /\ pc = "eliminate"
    /\ SolveRaises(frame.A, MatrixSize(frame.components, frame.node_map),
                   frame.col, frame.empty_solve)
    /\ ret' = SingularResult
    /\ pc' = AfterDc(frame.op)
    /\ engine' = SelfAfterDc(engine)
    /\ UNCHANGED <<suspended, managerVars>>
    /\ UNCHANGED <<simVars, frame, results, propVars, evalVars>>

\* linalg.solve returned V: extract the results, return
DcExtract ==
    /\ pc = "eliminate"
    /\ \E n \in {MatrixSize(frame.components, frame.node_map)} :
          /\ frame.col > n
          /\ ~SolveRaises(frame.A, n, frame.col, frame.empty_solve)
          /\ ret' = SolvedResult(frame.components, frame.node_map,
                                 [r \in 1..n |-> frame.A[r][n + 1]],
                                 Cardinality(DOMAIN frame.node_map) - 1)
    /\ pc' = AfterDc(frame.op)
    /\ engine' = SelfAfterDc(engine)
    /\ UNCHANGED <<suspended, managerVars>>
    /\ UNCHANGED <<simVars, frame, results, propVars, evalVars>>

----------------------------------------------------------------------------
(* SpecDC: simulate_dc on lists of at most MaxComponents components (ids   *)
(* by position) and MaxEngineWires wires.                                  *)

ComponentTypes == {"ground", "battery", "resistor"}

\* what a component can be: a ground, a battery of 1 or 2 volts, a resistor
\* of 0, 1 or 2 ohms; "terminals" lists 0, 1 or 2 terminals
ComponentKinds ==
    {<<"ground", 0, 0>>}
    \cup {<<"battery", tm, v>> : tm \in 0..2, v \in 1..2}
    \cup {<<"resistor", tm, r>> : tm \in 0..2, r \in 0..2}

ComponentLists ==
    UNION {{[k \in 1..n |-> Component(k, kd[k][1], kd[k][2], kd[k][3])] :
               kd \in [1..n -> ComponentKinds]} :
           n \in 0..MaxComponents}

\* what linalg.solve does with an empty system
EmptySolves == {"raises", "empty"}

\* a wire between two terminals, "comp" holding a component dict
DictWire(from_comp, from_term, to_comp, to_term) ==
    EngineWire("dict", from_comp, from_term, to_comp, to_term)

\* a ground and two batteries across the same pair of nodes, the second
\* pair of terminals wired to the ground
TwoSourceCircuits ==
    {[components |-> <<Component(1, "ground", 0, 0), Component(2, "battery", 2, v1),
                       Component(3, "battery", 2, v2)>>,
      wires |-> <<DictWire(2, 0, 3, 0), DictWire(2, 1, 3, 1), DictWire(2, 1, 1, 0)>>] :
        v1 \in 1..2, v2 \in 1..2}

\* a ground, a battery whose second terminal is not listed, and a resistor
\* of resistance 0 or -1
BadResistorCircuits ==
    {[components |-> <<Component(1, "ground", 0, 0), Component(2, "battery", 1, v),
                       Component(3, "resistor", tm, r)>>,
      wires |-> ws] :
        v \in 1..2, tm \in 0..2, r \in {-1, 0},
        ws \in {<<>>, <<DictWire(2, 0, 3, 0)>>}}

\* a ground and two resistors, two wires between any of the four resistor
\* terminals or the ground's terminal
ChainEnds == {<<2, 0>>, <<2, 1>>, <<3, 0>>, <<3, 1>>, <<1, 0>>}

ChainCircuits ==
    {[components |-> <<Component(1, "ground", 0, 0), Component(2, "resistor", 2, 1),
                       Component(3, "resistor", 2, 1)>>,
      wires |-> <<DictWire(a[1], a[2], b[1], b[2]), DictWire(c[1], c[2], d[1], d[2])>>] :
        a \in ChainEnds, b \in ChainEnds, c \in ChainEnds, d \in ChainEnds}

\* a battery from node a to ground, R1 from a to b, R2 from b to ground, the
\* wires in either order (scripts/seed_database.py, "Voltage Divider")
DividerWires ==
    <<DictWire(1, 0, 2, 0), DictWire(2, 1, 3, 0), DictWire(3, 1, 4, 0),
      DictWire(1, 1, 4, 0)>>

Reverse(seq) == [i \in 1..Len(seq) |-> seq[Len(seq) + 1 - i]]

DividerCircuits ==
    {[components |-> <<Component(1, "battery", 2, v), Component(2, "resistor", 2, r1),
                       Component(3, "resistor", 2, r2), Component(4, "ground", 0, 0)>>,
      wires |-> ws] :
        v \in 1..3, r1 \in 1..2, r2 \in 1..2,
        ws \in {DividerWires, Reverse(DividerWires)}}

EngineWires ==
    {EngineWire(sh, fc, ft, tc, tt) :
        sh \in {"dict", "id"}, fc \in 1..MaxComponents, ft \in 0..1,
        tc \in 1..MaxComponents, tt \in 0..1}

EngineWireLists == UNION {[1..n -> EngineWires] : n \in 0..MaxEngineWires}

NextDC ==
    \/ /\ pc = "idle"
       /\ \E cs \in ComponentLists, ws \in EngineWireLists, e \in EmptySolves :
              SimulateDcCall(cs, ws, e)
    \/ /\ pc = "idle"
       /\ \E c \in TwoSourceCircuits \cup DividerCircuits \cup BadResistorCircuits
                       \cup ChainCircuits,
             e \in EmptySolves :
              SimulateDcCall(c.components, c.wires, e)
    \/ RepeatDcCall
    \/ MergeStep
    \/ GroundCheck
    \/ AssembleStep
    \/ DcSolve
    \/ EliminateStep
    \/ SolveFails
    \/ DcExtract

SpecDC == InitSimulator /\ [][NextDC]_vars

----------------------------------------------------------------------------
(* simulate_transient *)

\* len(np.arange(0, duration, time_step)) for time_step # 0:
\* ceil(duration / time_step), and 0 when that is not positive
ArangeLen(duration, time_step) ==
    IF duration * time_step <= 0 THEN 0
    ELSE (AbsInt(duration) + AbsInt(time_step) - 1) \div AbsInt(time_step)

\* np.arange raises for a zero step; which exception depends on the
\* argument types and the numpy build
ArangeErrors == {"ZeroDivisionError", "ValueError"}

\* time_points.tolist()
TimePoints(n_points, time_step) == [k \in 1..n_points |-> (k - 1) * time_step]

\* `for key, value in results.get(..., {}).items(): history[key].append(value)`
AppendHistory(history, values) ==
    [key \in (DOMAIN history) \cup (DOMAIN values) |->
        IF key \notin DOMAIN values THEN history[key]
        ELSE IF key \in DOMAIN history THEN Append(history[key], values[key])
        ELSE <<values[key]>>]

\* the dictionary simulate_transient returns
TransientResult(n_points, time_step, voltage_history, current_history) ==
    [success |-> TRUE,
     time |-> TimePoints(n_points, time_step),
     voltages |-> voltage_history, currents |-> current_history]

\* simulate_transient(components, wires, duration, time_step): entry, up to
\* the loop over time_points
TransientCall(components, ws, duration, time_step, empty_solve, exc) ==
    /\ pc = "idle"
    /\ IF time_step = 0
       THEN /\ ret' = [raised |-> exc]
            /\ pc' = "raised"
            /\ frame' = [op |-> "transient", components |-> components, wires |-> ws,
                         duration |-> duration, time_step |-> time_step]
       ELSE /\ ret' = ret
            /\ pc' = "transient_loop"
            /\ frame' = [op |-> "transient", components |-> components, wires |-> ws,
                         empty_solve |-> empty_solve, A |-> <<>>, G |-> <<>>,
                         c |-> 1, col |-> 1, ground_node |-> None,
                         node_map |-> EmptyDict, w |-> 1, solve_attempted |-> FALSE,
                         duration |-> duration, time_step |-> time_step,
                         n_points |-> ArangeLen(duration, time_step), t |-> 0,
                         voltage_history |-> EmptyDict, current_history |-> EmptyDict,
                         results |-> NoValue]
    /\ UNCHANGED sharedVars
    /\ UNCHANGED <<simVars, results, propVars, evalVars>>

\* `for t in time_points`: the call self.simulate_dc(components, wires)
TransientStep ==
    /\ pc = "transient_loop"
    /\ frame.t < frame.n_points
    /\ frame' = [frame EXCEPT
                    !.A = <<>>, !.G = <<>>, !.c = 1, !.col = 1,
                    !.ground_node = FindGround(frame.components, 1),
                    !.node_map = InitialNodeMap(frame.components), !.w = 1,
                    !.solve_attempted = FALSE]
    /\ pc' = "merge_wires"
    /\ UNCHANGED sharedVars
    /\ UNCHANGED <<simVars, results, ret, propVars, evalVars>>

\* simulate_dc returned: store its voltages and currents
TransientStore ==
    /\ pc = "transient_store"
    /\ frame' = [frame EXCEPT
                    !.results = ret,
                    !.voltage_history = AppendHistory(@, ret.voltages),
                    !.current_history = AppendHistory(@, ret.currents),
                    !.t = @ + 1]
    /\ pc' = "transient_loop"
    /\ UNCHANGED sharedVars
    /\ UNCHANGED <<simVars, results, ret, propVars, evalVars>>

\* the loop is over: return
TransientReturn ==
    /\ pc = "transient_loop"
    /\ frame.t >= frame.n_points
    /\ ret' = TransientResult(frame.n_points, frame.time_step,
                              frame.voltage_history, frame.current_history)
    /\ pc' = "returned"
    /\ UNCHANGED sharedVars
    /\ UNCHANGED <<simVars, frame, results, propVars, evalVars>>

----------------------------------------------------------------------------
(* SpecTransient: simulate_transient with durations in -1..MaxPoints and   *)
(* steps in -1..MaxPoints, on lists of at most MaxComponents components.   *)

MaxPoints == 2

TransientDurations == (-1)..MaxPoints
TransientSteps == (-1)..MaxPoints

NextTransient ==
    \/ /\ pc = "idle"
       /\ \E cs \in ComponentLists, d \in TransientDurations, s \in TransientSteps,
             e \in EmptySolves, x \in ArangeErrors :
              TransientCall(cs, <<>>, d, s, e, x)
    \/ /\ pc = "idle"
       /\ \E c \in TwoSourceCircuits \cup BadResistorCircuits,
             d \in TransientDurations, s \in TransientSteps, e \in EmptySolves,
             x \in ArangeErrors :
              TransientCall(c.components, c.wires, d, s, e, x)
    \/ TransientStep
    \/ MergeStep
    \/ GroundCheck
    \/ AssembleStep
    \/ DcSolve
    \/ EliminateStep
    \/ SolveFails
    \/ DcExtract
    \/ TransientStore
    \/ TransientReturn

SpecTransient == InitSimulator /\ [][NextTransient]_vars

----------------------------------------------------------------------------
(* run_simulation: the route that runs an analysis for a stored circuit    *)
(* and keeps a record of it.  The record is frame.simulation.              *)

\* Simulation(..., status="running")
NewSimulation(simulation_type) ==
    [simulation_type |-> simulation_type, status |-> "running",
     results |-> None, component_states |-> None, wire_states |-> None,
     error_message |-> None]

\* dict.get(key, 0) on a result dict
GetOrZero(d, key) == IF key \in DOMAIN d THEN d[key] ELSE Zero

\* calculate_component_states: voltage, current and power of each component
ComponentStates(components, res) ==
    [name \in {CompName(components[k].id) : k \in DOMAIN components} |->
        [voltage |-> GetOrZero(res.voltages, name),
         current |-> GetOrZero(res.currents, name),
         power |-> FMul(GetOrZero(res.voltages, name),
                        GetOrZero(res.currents, name))]]

\* calculate_wire_states: the current of the component each wire starts at
WireStates(ws, res) ==
    [idx \in DOMAIN ws |->
        [current |-> GetOrZero(res.currents, CompName(ws[idx].from_comp))]]

\* str(e) of the exception a wire with a bare component id raises
ErrorMessage(exc) ==
    IF exc = "AttributeError" THEN "'int' object has no attribute 'get'" ELSE exc

\* run_simulation: the record is created and engine.simulate is entered
\* (simulation_type "dc": simulate_dc up to the wire loop)
RunCall(components, ws, empty_solve) ==
    /\ pc = "idle"
    /\ frame' = [op |-> "run", components |-> components, wires |-> ws,
                 empty_solve |-> empty_solve, A |-> <<>>, G |-> <<>>,
                 c |-> 1, col |-> 1,
                 ground_node |-> FindGround(components, 1),
                 node_map |-> InitialNodeMap(components), w |-> 1,
                 solve_attempted |-> FALSE,
                 simulation |-> NewSimulation("dc")]
    /\ pc' = "merge_wires"
    /\ ret' = NoValue
    /\ UNCHANGED sharedVars
    /\ UNCHANGED <<simVars, results, propVars, evalVars>>

\* engine.simulate returned: the states are derived and the record is
\* updated and returned
RunStore ==
    /\ pc = "run_store"
    /\ \E s \in {[frame.simulation EXCEPT
                    !.results = ret,
                    !.component_states = ComponentStates(frame.components, ret),
                    !.wire_states = WireStates(frame.wires, ret),
                    !.status = "completed"]} :
          /\ frame' = [frame EXCEPT !.simulation = s]
          /\ ret' = s
    /\ pc' = "returned"
    /\ UNCHANGED sharedVars
    /\ UNCHANGED <<simVars, results, propVars, evalVars>>

\* `except Exception as e`: the record is marked failed, HTTP 500
RunExcept ==
    /\ pc = "raised"
    /\ frame.op = "run"
    /\ frame' = [frame EXCEPT
                    !.simulation.status = "failed",
                    !.simulation.error_message = ErrorMessage(ret.raised)]
    /\ ret' = [status_code |-> 500, detail |-> ErrorMessage(ret.raised)]
    /\ pc' = "responded"
    /\ UNCHANGED sharedVars
    /\ UNCHANGED <<simVars, results, propVars, evalVars>>

----------------------------------------------------------------------------
(* SpecRun: run_simulation with simulation_type "dc" on the circuits of    *)
(* SpecDC.                                                                 *)

NextRun ==
    \/ /\ pc = "idle"
       /\ \E cs \in ComponentLists, ws \in EngineWireLists, e \in EmptySolves :
              RunCall(cs, ws, e)
    \/ MergeStep
    \/ GroundCheck
    \/ AssembleStep
    \/ DcSolve
    \/ EliminateStep
    \/ SolveFails
    \/ DcExtract
    \/ RunStore
    \/ RunExcept

SpecRun == InitSimulator /\ [][NextRun]_vars

----------------------------------------------------------------------------
(* The digital routes: the loop that builds the gates of a request.  A     *)
(* type token is a sequence of characters.                                 *)

LowerLetters ==
    <<"a", "b", "c", "d", "e", "f", "g", "h", "i", "j", "k", "l", "m",
      "n", "o", "p", "q", "r", "s", "t", "u", "v", "w", "x", "y", "z">>

UpperLetters ==
    <<"A", "B", "C", "D", "E", "F", "G", "H", "I", "J", "K", "L", "M",
      "N", "O", "P", "Q", "R", "S", "T", "U", "V", "W", "X", "Y", "Z">>

\* str.upper() on one character: a lower-case letter becomes its capital,
\* every other character stays
UpperChar(ch) ==
    IF \E i \in DOMAIN LowerLetters : LowerLetters[i] = ch
    THEN UpperLetters[CHOOSE i \in DOMAIN LowerLetters : LowerLetters[i] = ch]
    ELSE ch

\* gate_def.type.upper()
Upper(token) == [i \in DOMAIN token |-> UpperChar(token[i])]

\* the members of the enum GateType: GateType[name] looks a member up by
\* its name, and the member's value is the type a gate is made with
GateTypeMembers ==
    {[name |-> <<"A", "N", "D">>, value |-> "AND"],
     [name |-> <<"O", "R">>, value |-> "OR"],
     [name |-> <<"N", "O", "T">>, value |-> "NOT"],
     [name |-> <<"N", "A", "N", "D">>, value |-> "NAND"],
     [name |-> <<"N", "O", "R">>, value |-> "NOR"],
     [name |-> <<"X", "O", "R">>, value |-> "XOR"],
     [name |-> <<"X", "N", "O", "R">>, value |-> "XNOR"],
     [name |-> <<"B", "U", "F", "F", "E", "R">>, value |-> "BUFFER"],
     [name |-> <<"D", "F", "F">>, value |-> "D_FLIP_FLOP"],
     [name |-> <<"J", "K", "F", "F">>, value |-> "JK_FLIP_FLOP"],
     [name |-> <<"L", "A", "T", "C", "H">>, value |-> "LATCH"],
     [name |-> <<"M", "U", "L", "T", "I", "P", "L", "E", "X", "E", "R">>,
      value |-> "MUX"],
     [name |-> <<"D", "E", "C", "O", "D", "E", "R">>, value |-> "DECODER"],
     [name |-> <<"E", "N", "C", "O", "D", "E", "R">>, value |-> "ENCODER"]}

\* GateType[name] raises KeyError
KeyError(name) == \A m \in GateTypeMembers : m.name # name

\* GateType[name]
GateTypeByName(name) == (CHOOSE m \in GateTypeMembers : m.name = name).value

\* the routes that build a simulator from the gates of a request
Routes == {"simulate", "truth-table", "simulate-clock", "analyze"}

\* a route handler starts on a request: create_digital_simulator()
RouteCall(route, gate_defs) ==
    /\ pc \in {"idle", "built", "returned", "responded"}
    /\ gates' = EmptyDict
    /\ flip_flops' = EmptyDict
    /\ wires' = <<>>
    /\ inputs' = EmptyDict
    /\ current_time' = 0
    /\ results' = <<>>
    /\ frame' = [op |-> "route", route |-> route, gate_defs |-> gate_defs, k |-> 1]
    /\ ret' = NoValue
    /\ pc' = "build"
    /\ UNCHANGED sharedVars
    /\ UNCHANGED <<propVars, evalVars>>

\* the response to a gate definition whose type is no member name
InvalidGateType(token) == [status_code |-> 400, detail |-> token]

\* one round of `for gate_def in request.circuit.gates`
BuildGate ==
    /\ pc = "build"
    /\ frame.k <= Len(frame.gate_defs)
    /\ \E gate_def \in {frame.gate_defs[frame.k]} :
          IF ~KeyError(Upper(gate_def.type))
          THEN /\ gates' = DictSet(gates, gate_def.id,
                                   NewGate(GateTypeByName(Upper(gate_def.type)),
                                           gate_def.num_inputs))
               /\ frame' = [frame EXCEPT !.k = @ + 1]
               /\ UNCHANGED <<pc, ret>>
          ELSE IF frame.route = "analyze"
          THEN /\ frame' = [frame EXCEPT !.k = @ + 1]
               /\ UNCHANGED <<gates, pc, ret>>
          ELSE /\ ret' = InvalidGateType(gate_def.type)
               /\ pc' = "responded"
               /\ UNCHANGED <<gates, frame>>
    /\ UNCHANGED sharedVars
    /\ UNCHANGED <<flip_flops, wires, inputs, current_time, results, propVars,
                   evalVars>>

\* the loop is over.  /analyze goes on to count the definitions of the
\* request and returns; the other handlers go on with the built circuit.
BuildDone ==
    /\ pc = "build"
    /\ frame.k > Len(frame.gate_defs)
    /\ IF frame.route = "analyze"
       THEN /\ ret' = [success |-> TRUE, total_gates |-> Len(frame.gate_defs)]
            /\ pc' = "returned"
       ELSE /\ ret' = ret
            /\ pc' = "built"
    /\ UNCHANGED sharedVars
    /\ UNCHANGED <<simVars, frame, results, propVars, evalVars>>

----------------------------------------------------------------------------
(* SpecRoute: requests of at most MaxGateDefs gate definitions (ids by     *)
(* position, the default num_inputs) to the four routes.                   *)

MaxGateDefs == 2

TypeTokens ==
    {<<"a", "n", "d">>, <<"A", "N", "D">>, <<"A", "n", "d">>, <<"o", "r">>,
     <<"N", "O", "T">>, <<"n", "a", "n", "d">>, <<"N", "o", "r">>,
     <<"x", "o", "r">>, <<"X", "N", "O", "R">>, <<"b", "u", "f", "f", "e", "r">>,
     <<"d", "f", "f">>, <<"J", "K", "F", "F">>, <<"l", "a", "t", "c", "h">>,
     <<"m", "u", "x">>, <<"d", "e", "c", "o", "d", "e", "r">>,
     <<"D", "_", "F", "L", "I", "P", "_", "F", "L", "O", "P">>,
     <<"f", "o", "o">>, <<" ", "A", "N", "D">>, <<>>}

GateDefLists ==
    UNION {{[k \in 1..n |-> [id |-> k, type |-> ts[k], num_inputs |-> 2]] :
               ts \in [1..n -> TypeTokens]} :
           n \in 0..MaxGateDefs}

NextRoute ==
    \/ \E r \in Routes, ds \in GateDefLists : RouteCall(r, ds)
    \/ BuildGate
    \/ BuildDone

SpecRoute == InitSimulator /\ [][NextRoute]_vars

----------------------------------------------------------------------------
(* ConnectionManager: the rooms of the WebSocket endpoint.  connect() and   *)
(* disconnect() of other clients run while broadcast() is suspended in a    *)
(* send; between two awaits broadcast() runs alone.                         *)

MaxConnections == 3
MaxRooms == 2

Connections == 1..MaxConnections
Rooms == 1..MaxRooms

\* a broadcast() is between its call and its end
InBroadcast == broadcast.pc \in {"iterating", "sending"}

\* del d[k] on a dict
DictDel(d, k) == [x \in (DOMAIN d) \ {k} |-> d[x]]

\* ConnectionManager.disconnect: the dictionary after the call
DisconnectFrom(ac, websocket, circuit_id) ==
    IF circuit_id \in DOMAIN ac
    THEN IF ac[circuit_id] \ {websocket} = {}
         THEN DictDel(ac, circuit_id)
         ELSE [ac EXCEPT ![circuit_id] = @ \ {websocket}]
    ELSE ac

\* `for connection in disconnected: self.disconnect(connection, circuit_id)`
RECURSIVE CleanUp(_, _, _)
CleanUp(ac, disconnected, circuit_id) ==
    IF disconnected = <<>> THEN ac
    ELSE CleanUp(DisconnectFrom(ac, Head(disconnected), circuit_id),
                 Tail(disconnected), circuit_id)

\* the set object the `for` statement of broadcast() iterates: the room's set
\* while the room is the one the loop started on, an emptied set after the
\* room was deleted
IteratedSet ==
    IF broadcast.attached /\ broadcast.circuit_id \in DOMAIN active_connections
    THEN active_connections[broadcast.circuit_id]
    ELSE {}

\* websocket_endpoint up to its loop: ConnectionManager.connect after
\* `await websocket.accept()`, for a new websocket
Connect(websocket, circuit_id) ==
    /\ broadcast.pc # "iterating"
    /\ websocket \notin DOMAIN endpoints
    /\ \A r \in DOMAIN active_connections : websocket \notin active_connections[r]
    /\ active_connections' =
          DictSet(active_connections, circuit_id,
                  (IF circuit_id \in DOMAIN active_connections
                   THEN active_connections[circuit_id] ELSE {}) \cup {websocket})
    /\ endpoints' = DictSet(endpoints, websocket, circuit_id)
    /\ broadcast' =
          IF InBroadcast /\ broadcast.attached /\ broadcast.circuit_id = circuit_id
          THEN [broadcast EXCEPT !.mutated = TRUE]
          ELSE broadcast
    /\ UNCHANGED simulatorVars

\* the endpoint's `except WebSocketDisconnect: manager.disconnect(...)` of a
\* client whose endpoint waits in receive_text
Disconnect(websocket) ==
    /\ broadcast.pc # "iterating"
    /\ websocket \in DOMAIN endpoints
    /\ InBroadcast => websocket # broadcast.exclude
    /\ active_connections' =
          DisconnectFrom(active_connections, websocket, endpoints[websocket])
    /\ endpoints' = DictDel(endpoints, websocket)
    /\ broadcast' =
          IF /\ InBroadcast /\ broadcast.attached
             /\ broadcast.circuit_id = endpoints[websocket]
             /\ websocket \in active_connections[endpoints[websocket]]
          THEN [broadcast EXCEPT
                   !.mutated = TRUE,
                   !.stayed = @ \ {websocket},
                   !.attached = endpoints[websocket] \in DOMAIN
                       DisconnectFrom(active_connections, websocket,
                                      endpoints[websocket])]
          ELSE broadcast
    /\ UNCHANGED simulatorVars

\* the endpoint's `await manager.broadcast(circuit_id, {...}, exclude=websocket)`:
\* the early return, or the start of the `for` statement over the room's set
BroadcastCall(websocket) ==
    /\ ~InBroadcast
    /\ websocket \in DOMAIN endpoints
    /\ broadcast' =
          IF endpoints[websocket] \notin DOMAIN active_connections
          THEN [NoBroadcast EXCEPT !.pc = "done",
                                   !.circuit_id = endpoints[websocket],
                                   !.exclude = websocket]
          ELSE [NoBroadcast EXCEPT
                   !.pc = "iterating",
                   !.circuit_id = endpoints[websocket],
                   !.exclude = websocket,
                   !.si_used = Cardinality(active_connections[endpoints[websocket]]),
                   !.attached = TRUE,
                   !.stayed = active_connections[endpoints[websocket]]]
    /\ UNCHANGED <<active_connections, endpoints>>
    /\ UNCHANGED simulatorVars

\* the set iterator finds the set at another size than it started with:
\* RuntimeError, which leaves broadcast() through the `for` statement and
\* the endpoint through its `try`, whose handler catches WebSocketDisconnect
BroadcastRaises ==
    /\ broadcast.pc = "iterating"
    /\ Cardinality(IteratedSet) # broadcast.si_used
    /\ broadcast' = [broadcast EXCEPT !.pc = "raised"]
    /\ endpoints' = DictDel(endpoints, broadcast.exclude)
    /\ UNCHANGED active_connections
    /\ UNCHANGED simulatorVars

\* the iterator yields a connection: `continue` for the excluded one, else
\* `await connection.send_text(...)`.  A set that was written and is back at
\* its size yields its members in an order that depends on its hash table.
BroadcastNext ==
    /\ broadcast.pc = "iterating"
    /\ Cardinality(IteratedSet) = broadcast.si_used
    /\ \E connection \in IteratedSet \ broadcast.returned :
          broadcast' =
             IF connection = broadcast.exclude
             THEN [broadcast EXCEPT !.returned = @ \cup {connection}]
             ELSE [broadcast EXCEPT !.returned = @ \cup {connection},
                                    !.connection = connection,
                                    !.attempted = @ \cup {connection},
                                    !.pc = "sending"]
    /\ UNCHANGED <<active_connections, endpoints>>
    /\ UNCHANGED simulatorVars

\* send_text returns
SendReturns ==
    /\ broadcast.pc = "sending"
    /\ broadcast' = [broadcast EXCEPT !.pc = "iterating"]
    /\ UNCHANGED <<active_connections, endpoints>>
    /\ UNCHANGED simulatorVars

\* send_text raises: `except: disconnected.append(connection)`
SendRaises ==
    /\ broadcast.pc = "sending"
    /\ broadcast' = [broadcast EXCEPT
                        !.pc = "iterating",
                        !.disconnected = Append(@, broadcast.connection)]
    /\ UNCHANGED <<active_connections, endpoints>>
    /\ UNCHANGED simulatorVars

\* the iterator is exhausted: the clean-up loop and the return
BroadcastEnds ==
    /\ broadcast.pc = "iterating"
    /\ Cardinality(IteratedSet) = broadcast.si_used
    /\ broadcast.mutated \/ IteratedSet \subseteq broadcast.returned
    /\ active_connections' =
          CleanUp(active_connections, broadcast.disconnected, broadcast.circuit_id)
    /\ broadcast' = [broadcast EXCEPT !.pc = "done"]
    /\ UNCHANGED endpoints
    /\ UNCHANGED simulatorVars

NextBroadcast ==
    \/ \E c \in Connections, r \in Rooms : Connect(c, r)
    \/ \E c \in Connections : Disconnect(c)
    \/ \E c \in Connections : BroadcastCall(c)
    \/ BroadcastRaises
    \/ BroadcastNext
    \/ SendReturns
    \/ SendRaises
    \/ BroadcastEnds

SpecBroadcast == InitSimulator /\ [][NextBroadcast]_vars

----------------------------------------------------------------------------
(* Claims about propagate() and evaluate() *)

\* C1: every call of propagate() returns, after at most 100 passes of its
\* while loop, whatever the gates, wires and forced outputs are.
C1_PropagateTerminates ==
    /\ [](iterations <= max_iterations)
    /\ (pc = "propagate") ~> (pc = "returned")

\* C1 witness: a call on an oscillating loop returned after 100 passes with
\* the last pass still changing a gate.
C1_Witness == pc = "returned" /\ iterations = max_iterations /\ changes

\* the circuit is one NOT gate whose output is wired to its own input 0
NotSelfLoop ==
    /\ DOMAIN gates = {1}
    /\ gates[1].type = "NOT"
    /\ Len(wires) = 1
    /\ wires[1].from_gate = 1 /\ wires[1].to_gate = 1 /\ wires[1].to_input = 0

\* C2: on a freshly built circuit of one NOT gate wired to itself, a call of
\* propagate() exhausts the 100-pass cap and reports the instability.
C2_SelfLoopHitsCap ==
    (pc = "returned" /\ frame.op = "propagate" /\ frame.fresh /\ NotSelfLoop)
        => (iterations = max_iterations /\ warned)

\* C8: evaluate() returns UNKNOWN whenever an input is UNKNOWN, and after a
\* propagate() that ended at a fixed point no gate with an UNKNOWN input
\* holds LOW or HIGH.
C8_UnknownConservative ==
    /\ (pc = "evaluated" /\ UNKNOWN \in Range(eval_gate.inputs))
            => eval_out = UNKNOWN
    /\ (pc = "returned" /\ ~changes)
            => \A g \in DOMAIN gates :
                  UNKNOWN \in Range(gates[g].inputs)
                      => gates[g].output \notin {LOW, HIGH}

\* C8 witness: propagate() settled with a gate that has one input HIGH and
\* another UNKNOWN.
C8_Witness ==
    /\ pc = "returned" /\ ~changes
    /\ \E g \in DOMAIN gates :
          /\ UNKNOWN \in Range(gates[g].inputs)
          /\ HIGH \in Range(gates[g].inputs)

----------------------------------------------------------------------------
(* Claims about simulate() *)

\* the keys of simulate's return value and of the states it records
SimResultKeys ==
    {"success", "simulation_type", "duration", "time_step", "samples", "results"}
SimStateKeys == {"time", "inputs", "gates", "flip_flops", "wires"}

\* the return value carries a field besides its data fields
HasWarningField(r) ==
    \/ DOMAIN r # SimResultKeys
    \/ \E i \in DOMAIN r.results : DOMAIN r.results[i] # SimStateKeys

\* C3: when a propagate() of the run stopped at the iteration cap, the run
\* still returns its result with the last-known gate state, and the result
\* carries a warning flag telling the caller so.
C3_CapReported ==
    (pc = "returned" /\ frame.op = "simulate" /\ frame.capped)
        => /\ ret.success
           /\ ret.results # <<>>
           /\ ret.results[Len(ret.results)].gates = GateValues(gates)
           /\ HasWarningField(ret)

\* C9: every call of simulate() returns, whatever duration and time_step are.
C9_SimulateTerminates == (frame.op = "simulate") ~> (pc = "returned")

----------------------------------------------------------------------------
(* Claims about get_truth_table() *)

\* gate 3 is a 2-input AND whose inputs 0 and 1 are wired from gates 1 and 2
AndOfTwo ==
    /\ DOMAIN gates = {1, 2, 3}
    /\ gates[3].type = "AND" /\ gates[3].num_inputs = 2
    /\ Len(wires) = 2
    /\ \E a \in 1..2, b \in 1..2 :
          /\ wires[a].from_gate = 1 /\ wires[a].to_gate = 3 /\ wires[a].to_input = 0
          /\ wires[b].from_gate = 2 /\ wires[b].to_gate = 3 /\ wires[b].to_input = 1

TableReturned == pc = "returned" /\ frame.op = "truth_table"

\* C4: for a 2-input AND gate G fed by gates A and B,
\* get_truth_table([A, B], [G]) records 1 for G in the row A = 1, B = 1 and 0
\* for G in the three other rows.
C4_AndTruthTable ==
    (TableReturned /\ AndOfTwo /\ frame.input_names = <<1, 2>>
                   /\ frame.output_names = <<3>>)
    => /\ Len(ret) = 4
       /\ \A r \in 1..Len(ret) :
             ret[r].outputs[3] =
                 IF ret[r].inputs[1] = 1 /\ ret[r].inputs[2] = 1 THEN 1 ELSE 0

\* C5 as stated: with n input names the table has 2^n rows and row i records
\* bit (i >> j) & 1 for the j-th name, for every circuit and every name list.
C5_RowsEnumerate ==
    TableReturned
    => /\ Len(ret) = 2 ^ Len(frame.input_names)
       /\ \A i \in 0..(Len(ret) - 1), j \in 0..(Len(frame.input_names) - 1) :
             ret[i + 1].inputs[frame.input_names[j + 1]] = (i \div (2 ^ j)) % 2

\* the last 0-based position a name takes in a list of names
LastPosition(names, name) ==
    CHOOSE j \in 0..(Len(names) - 1) :
        /\ names[j + 1] = name
        /\ \A k \in (j + 1)..(Len(names) - 1) : names[k + 1] # name

\* C5 amended: the table has 2^n rows and row i records for each name the
\* bit (i >> j) & 1 of the last position j the name takes in input_names;
\* with pairwise distinct names that is the bit of the name's own position.
C5_RowsEnumerateLastPosition ==
    TableReturned
    => /\ Len(ret) = 2 ^ Len(frame.input_names)
       /\ \A i \in 0..(Len(ret) - 1) :
             /\ DOMAIN ret[i + 1].inputs = Range(frame.input_names)
             /\ \A name \in Range(frame.input_names) :
                   ret[i + 1].inputs[name] =
                       (i \div (2 ^ LastPosition(frame.input_names, name))) % 2

\* a table of four rows over two distinct names has been returned
C5_Witness ==
    /\ TableReturned
    /\ Len(frame.input_names) = 2
    /\ frame.input_names[1] # frame.input_names[2]
    /\ Len(ret) = 4
    /\ ret[3].inputs[frame.input_names[2]] = 1

----------------------------------------------------------------------------
(* Claims about simulate_clock_cycle() *)

\* C6: with a single rising-edge D flip-flop whose D input is held HIGH,
\* simulate_clock_cycle records Q = HIGH in the snapshot after the first
\* rising edge and in every later snapshot.
C6_QHighAfterFirstEdge ==
    (/\ frame.op = "clock"
     /\ DOMAIN flip_flops = {1}
     /\ flip_flops[1].edge_trigger = "rising"
     /\ flip_flops[1].d_input = HIGH)
    => \A k \in 1..Len(results) : results[k].flip_flops[1] = LevelValue(HIGH)

\* C7: simulate_clock_cycle(clock, N) returns 2N snapshots, snapshot 2k is
\* (cycle k, rising) and snapshot 2k + 1 is (cycle k, falling), and each
\* snapshot holds the gate outputs left by that half-cycle's propagate and
\* the Q outputs left by that half-cycle's flip-flop update.
C7_ClockSnapshots ==
    /\ []((pc = "returned" /\ frame.op = "clock")
          => /\ Len(ret) = 2 * frame.num_cycles
             /\ \A k \in 0..(frame.num_cycles - 1) :
                   /\ ret[2 * k + 1].cycle = k /\ ret[2 * k + 1].edge = "rising"
                   /\ ret[2 * k + 2].cycle = k /\ ret[2 * k + 2].edge = "falling")
    /\ [][(frame.op = "clock" /\ results' # results)
          => /\ pc = "clock_update"
             /\ results' = Append(results, results'[Len(results')])
             /\ results'[Len(results')].gates = GateValues(gates')
             /\ results'[Len(results')].flip_flops = FlipFlopValues(flip_flops')
             /\ gates' = gates]_vars

\* two cycles have been returned and the first update changed Q to HIGH
C7_Witness ==
    /\ pc = "returned" /\ frame.op = "clock"
    /\ Len(ret) = 4
    /\ 1 \in DOMAIN ret[1].flip_flops
    /\ ret[1].flip_flops[1] = LevelValue(HIGH)
    /\ ret[4].edge = "falling"

----------------------------------------------------------------------------
(* Claims about simulate_dc() *)

NoGroundComponent(components) ==
    \A k \in DOMAIN components : components[k].type # "ground"

\* C10: simulate_dc on components without a 'ground' component always
\* returns a failure result (success false, an error reason, empty voltages
\* and currents), whatever the other components and wires are, and never
\* attempts the solve.
C10_NoGroundFails ==
    (frame.op = "dc" /\ NoGroundComponent(frame.components))
    => /\ ~frame.solve_attempted
       /\ pc \notin {"assemble", "eliminate"}
       /\ pc # "raised"
       /\ pc = "returned"
          => /\ ret.success = FALSE
             /\ ret.error # ""
             /\ ret.voltages = EmptyDict
             /\ ret.currents = EmptyDict

\* the determinant of the rows and columns of A listed, by expansion along
\* the first row listed
RECURSIVE Det(_, _, _), DetSum(_, _, _, _)
Det(A, rows, cols) == IF rows = <<>> THEN One ELSE DetSum(A, rows, cols, 1)

DetSum(A, rows, cols, j) ==
    IF j > Len(cols) THEN Zero
    ELSE LET a == A[rows[1]][cols[j]]
             rest == [i \in 1..(Len(cols) - 1) |-> IF i < j THEN cols[i] ELSE cols[i + 1]]
             term == IF a = Zero THEN Zero
                     ELSE FMul(IF j % 2 = 1 THEN a ELSE FSub(Zero, a),
                               Det(A, Tail(rows), rest))
         IN  FAdd(term, DetSum(A, rows, cols, j + 1))

\* the system G of n unknowns is singular
IsSingular(G, n) ==
    LET idx == [i \in 1..n |-> i] IN Det(G, idx, idx) = Zero

\* simulate_dc has returned from a call that reached linalg.solve
DcSolved == pc = "returned" /\ frame.op = "dc" /\ frame.solve_attempted

\* C13: when the assembled system is singular, simulate_dc returns a failure
\* result with success false and the singular-matrix reason and no voltages;
\* it neither raises nor returns success true.
C13_SingularFails ==
    /\ (frame.op = "dc" /\ frame.solve_attempted) => pc # "raised"
    /\ (DcSolved /\ Len(frame.G) >= 1 /\ IsSingular(frame.G, Len(frame.G)))
       => /\ ret.success = FALSE
          /\ ret.error = "Singular matrix - cannot solve circuit"
          /\ ret.voltages = EmptyDict
          /\ ret.currents = EmptyDict

\* two batteries of different voltage across the same pair of nodes have
\* been solved for
C13_Witness ==
    /\ DcSolved
    /\ Len(frame.components) = 3
    /\ frame.components[2].type = "battery" /\ frame.components[3].type = "battery"
    /\ frame.components[2].value # frame.components[3].value
    /\ Len(frame.wires) = 3
    /\ IsSingular(frame.G, Len(frame.G))
    /\ ret.success = FALSE

\* simulate_dc has returned from a call on one of the divider circuits
DividerReturned ==
    /\ pc = "returned" /\ frame.op = "dc"
    /\ [components |-> frame.components, wires |-> frame.wires] \in DividerCircuits

\* C14: for a ground, a battery of voltage V from node a to ground, R1 from a
\* to node b and R2 from b to ground, simulate_dc succeeds and the voltage of
\* node b (terminal 1 of R1, terminal 0 of R2) is V * R2 / (R1 + R2).
C14_VoltageDivider ==
    DividerReturned
    => /\ ret.success
       /\ \A b \in {NodeName(TermKey(2, 1)), NodeName(TermKey(3, 0))} :
             /\ b \in DOMAIN ret.voltages
             /\ ret.voltages[b] =
                    Frac(frame.components[1].value * frame.components[3].value,
                         frame.components[2].value + frame.components[3].value)

\* a resistor of the call has resistance <= 0
HasBadResistor(components) ==
    \E k \in DOMAIN components :
        components[k].type = "resistor" /\ components[k].value <= 0

\* C17: a DC run on a circuit with a battery and a resistor of resistance <= 0
\* is rejected: it is not assembled as a zero conductance into a run that
\* reports success.
C17_BadResistanceRejected ==
    (/\ pc = "returned" /\ frame.op = "dc"
     /\ HasBadResistor(frame.components)
     /\ \E k \in DOMAIN frame.components : frame.components[k].type = "battery")
    => ret.success = FALSE

\* _build_node_map has returned a map with a ground and the map is in use
NodeMapBuilt == pc \in {"assemble", "eliminate"}

\* the terminal keys of a node map (every key but the ground's)
Terminals(nm) == {k \in DOMAIN nm : k[2] >= 0}

\* some wire of ws has the terminals a and b as its two ends
Adjacent(ws, a, b) ==
    \E k \in DOMAIN ws :
        \/ TermKey(ws[k].from_comp, ws[k].from_term) = a
           /\ TermKey(ws[k].to_comp, ws[k].to_term) = b
        \/ TermKey(ws[k].from_comp, ws[k].from_term) = b
           /\ TermKey(ws[k].to_comp, ws[k].to_term) = a

\* the terminals of T joined to a terminal of S by a path of wires
RECURSIVE Group(_, _, _)
Group(ws, T, S) ==
    LET more == S \cup {b \in T : \E a \in S : Adjacent(ws, a, b)}
    IN  IF more = S THEN S ELSE Group(ws, T, more)

\* the lowest index the terminals of S had before the wires were merged
LowestInitial(components, S) ==
    LET nm0 == InitialNodeMap(components)
    IN  CHOOSE m \in {nm0[k] : k \in S} : \A k \in S : m <= nm0[k]

\* C19: after _build_node_map, two terminals joined by a path of wires have
\* the same node index, the lowest initial index of their group.
C19_WiredTerminalsShareNode ==
    NodeMapBuilt
    => \A a \in Terminals(frame.node_map) :
          LET S == Group(frame.wires, Terminals(frame.node_map), {a})
          IN  \A b \in S :
                 /\ frame.node_map[b] = frame.node_map[a]
                 /\ frame.node_map[b] = LowestInitial(frame.components, S)

\* C20: after _build_node_map, every terminal that a wire connects to the
\* ground component's terminal 0 has node index 0.
C20_GroundedTerminalsAreZero ==
    NodeMapBuilt
    => \A a \in Terminals(frame.node_map) :
          Adjacent(frame.wires, a, TermKey(frame.ground_node, 0))
          => frame.node_map[a] = 0

----------------------------------------------------------------------------
(* Claims about simulate_transient() *)

\* a transient call has ended, by returning or by raising
TransientEnded == frame.op = "transient" /\ pc \in {"returned", "raised"}

\* C11: a transient run with a negative duration or a time step <= 0 ends
\* in a failure result: it neither raises nor returns success true.
C11_BadTimingRejected ==
    (TransientEnded /\ (frame.duration < 0 \/ frame.time_step <= 0))
    => /\ pc = "returned"
       /\ ret.success = FALSE

\* C12: a transient run in which a per-step DC solve returned success false
\* does not return success true.
C12_TransientReportsDcFailure ==
    (/\ frame.op = "transient" /\ pc = "returned"
     /\ frame.results # NoValue
     /\ frame.results.success = FALSE)
    => ret.success = FALSE

\* a second simulate_dc call with the arguments of the first has ended
RepeatEnded ==
    /\ frame.op = "dc"
    /\ pc \in {"returned", "raised"}
    /\ "first" \in DOMAIN frame

----------------------------------------------------------------------------
(* Claims about the digital routes *)

EightTypes ==
    {<<"A", "N", "D">>, <<"O", "R">>, <<"N", "O", "T">>, <<"N", "A", "N", "D">>,
     <<"N", "O", "R">>, <<"X", "O", "R">>, <<"X", "N", "O", "R">>,
     <<"B", "U", "F", "F", "E", "R">>}

\* the token spells the name, letter by letter, in either case
SpellsIgnoringCase(token, name) ==
    /\ Len(token) = Len(name)
    /\ \A i \in DOMAIN name :
          \/ token[i] = name[i]
          \/ \E l \in DOMAIN UpperLetters :
                UpperLetters[l] = name[i] /\ LowerLetters[l] = token[i]

IsOneOfEight(token) == \E name \in EightTypes : SpellsIgnoringCase(token, name)

\* C18: a round of the gate loop of /simulate, /truth-table or
\* /simulate-clock accepts the definition (and adds its gate) exactly when
\* its type token spells, in any case, one of the eight types AND, OR, NOT,
\* NAND, NOR, XOR, XNOR, BUFFER; any other token ends the request with
\* status 400 and no gate added.
C18_EightTypesAccepted ==
    [][(/\ pc = "build" /\ frame.k <= Len(frame.gate_defs)
        /\ frame.route # "analyze")
       => IF IsOneOfEight(frame.gate_defs[frame.k].type)
          THEN /\ pc' = "build"
               /\ frame.gate_defs[frame.k].id \in DOMAIN gates'
          ELSE /\ pc' = "responded"
               /\ ret'.status_code = 400
               /\ gates' = gates]_vars

\* the node indices in use after the wires were merged, ground included
DistinctNodes(nm) == {nm[k] : k \in DOMAIN nm}

\* C21: for a circuit with a ground, the system simulate_dc assembles has
\* dimension (number of distinct nodes after wire merging, minus 1 for the
\* ground) + (number of batteries).
C21_MatrixDimension ==
    NodeMapBuilt
    => Len(frame.A) = (Cardinality(DistinctNodes(frame.node_map)) - 1)
                      + Cardinal(frame.components, "battery")

----------------------------------------------------------------------------
(* Claims about FlipFlop *)

\* (previous_clock, clock) is the edge the flip-flop is configured for
ConfiguredEdge(ff) ==
    \/ ff.edge_trigger = "rising" /\ ff.previous_clock = LOW /\ ff.clock = HIGH
    \/ ff.edge_trigger = "falling" /\ ff.previous_clock = HIGH /\ ff.clock = LOW

\* the step changes Q or Q-bar of the flip-flop f
OutputsChange(f) ==
    \/ flip_flops'[f].q_output # flip_flops[f].q_output
    \/ flip_flops'[f].q_not_output # flip_flops[f].q_not_output

\* C22: Q and Q-bar of a flip-flop change only in a step of update() (a step
\* that leaves D and the clock fields alone) taken while (previous_clock,
\* clock) is the configured edge; every step of propagate() leaves every
\* field of every flip-flop unchanged.
C22_OutputsChangeOnlyAtEdge ==
    [][/\ \A f \in (DOMAIN flip_flops) \cap (DOMAIN flip_flops') :
             OutputsChange(f)
             => /\ ConfiguredEdge(flip_flops[f])
                /\ flip_flops'[f].d_input = flip_flops[f].d_input
                /\ flip_flops'[f].clock = flip_flops[f].clock
                /\ flip_flops'[f].previous_clock = flip_flops[f].previous_clock
       /\ (pc = "propagate" \/ pc' = "propagate") => flip_flops' = flip_flops]_vars

\* propagate() is running on a circuit whose flip-flop has captured HIGH
C22_Witness ==
    /\ pc = "propagate"
    /\ 1 \in DOMAIN flip_flops
    /\ flip_flops[1].q_output = HIGH
    /\ flip_flops[1].d_input = LOW

\* C23: Q-bar is the complement of Q: it is never equal to Q, and it is LOW
\* or HIGH only while Q is its opposite.
C23_QBarIsComplement ==
    \A f \in DOMAIN flip_flops :
        /\ flip_flops[f].q_not_output # flip_flops[f].q_output
        /\ flip_flops[f].q_not_output = LOW => flip_flops[f].q_output = HIGH
        /\ flip_flops[f].q_not_output = HIGH => flip_flops[f].q_output = LOW

----------------------------------------------------------------------------
(* Claims about LogicGate.evaluate() *)

\* the number of HIGH inputs
NumberHigh(ins) == Cardinality({i \in DOMAIN ins : ins[i] = HIGH})

\* LOW or HIGH for a truth value
LevelOf(b) == IF b THEN HIGH ELSE LOW

\* the Boolean function of each of the eight gate types
ReferenceFunction(gtype, ins) ==
    CASE gtype = "AND" -> LevelOf(NumberHigh(ins) = Len(ins))
      [] gtype = "OR" -> LevelOf(NumberHigh(ins) > 0)
      [] gtype = "NOT" -> LevelOf(ins[1] # HIGH)
      [] gtype = "NAND" -> LevelOf(NumberHigh(ins) # Len(ins))
      [] gtype = "NOR" -> LevelOf(NumberHigh(ins) = 0)
      [] gtype = "XOR" -> LevelOf(NumberHigh(ins) % 2 = 1)
      [] gtype = "XNOR" -> LevelOf(NumberHigh(ins) % 2 = 0)
      [] gtype = "BUFFER" -> ins[1]

\* a gate of one of the eight types whose inputs are all LOW or HIGH
BooleanGate(g) ==
    /\ g.type \in {"AND", "OR", "NOT", "NAND", "NOR", "XOR", "XNOR", "BUFFER"}
    /\ \A i \in DOMAIN g.inputs : g.inputs[i] \in {LOW, HIGH}

\* C24: for each of the eight gate types and every input vector over
\* {LOW, HIGH}, evaluate() returns the reference Boolean function of the
\* inputs, whatever the gate's stored output, and changes no field of the
\* gate.
C24_EvaluateIsReference ==
    [][(pc = "gate" /\ pc' = "evaluated")
       => /\ eval_gate' = eval_gate
          /\ BooleanGate(eval_gate)
             => eval_out' = ReferenceFunction(eval_gate.type, eval_gate.inputs)]_vars

\* evaluate() has returned HIGH for an XOR gate of two inputs whose stored
\* output was LOW
C24_Witness ==
    /\ pc = "evaluated"
    /\ eval_gate.type = "XOR"
    /\ eval_gate.inputs = <<HIGH, LOW>>
    /\ eval_gate.output = LOW
    /\ eval_out = HIGH

----------------------------------------------------------------------------
(* Claims about the state propagate() leaves *)

\* propagate() called on its own has returned
PropagateReturned == pc = "returned" /\ frame.op = "propagate"

\* every gate's stored output is evaluate() of its inputs
GatesSettled ==
    \A g \in DOMAIN gates :
        gates[g].output = Evaluate(gates[g].type, gates[g].inputs)

\* a wire between two existing gates that ends on an input the gate has
LiveWire(w) ==
    /\ w.from_gate \in DOMAIN gates
    /\ w.to_gate \in DOMAIN gates
    /\ 0 <= w.to_input
    /\ w.to_input < gates[w.to_gate].num_inputs

\* every live wire carries its source's output to its destination input
WiresSettled ==
    \A k \in DOMAIN wires :
        LiveWire(wires[k])
        => /\ wires[k].signal = gates[wires[k].from_gate].output
           /\ gates[wires[k].to_gate].inputs[wires[k].to_input + 1]
                 = gates[wires[k].from_gate].output

\* C25: when propagate() returns after fewer than 100 passes, every gate's
\* stored output equals evaluate() of its inputs, and for every wire between
\* existing gates with an in-range to_input the wire signal and the
\* destination input equal the source gate's output.
C25_FixedPointBelowCap ==
    (PropagateReturned /\ iterations < 100)
    => GatesSettled /\ WiresSettled

\* no later live wire drives the input the wire k drives
LastDriver(k) ==
    \A j \in DOMAIN wires :
        (j > k /\ LiveWire(wires[j]))
        => \/ wires[j].to_gate # wires[k].to_gate
           \/ wires[j].to_input # wires[k].to_input

\* one more pass of the loop leaves the gates and the wires as they are
OneMorePassChangesNothing ==
    LET p == PropagatePass(gates, wires, current_time)
    IN  p.gates = gates /\ p.wires = wires /\ ~p.changes

\* C25 (amended): when propagate() returns after fewer than 100 passes,
\* every gate's stored output equals evaluate() of its inputs, every live
\* wire's signal equals its source gate's output, each driven input holds
\* the output of the source of the last wire that drives it, and one more
\* pass would change nothing.
C25_FixedPointLastDriver ==
    (PropagateReturned /\ iterations < 100)
    => /\ GatesSettled
       /\ \A k \in DOMAIN wires :
             LiveWire(wires[k])
             => /\ wires[k].signal = gates[wires[k].from_gate].output
                /\ LastDriver(k)
                   => gates[wires[k].to_gate].inputs[wires[k].to_input + 1]
                         = gates[wires[k].from_gate].output
       /\ OneMorePassChangesNothing

\* propagate() has returned after two passes, and an input driven by two
\* wires holds another level than the source of the first
C25_Witness ==
    /\ PropagateReturned
    /\ iterations = 2
    /\ ~WiresSettled

----------------------------------------------------------------------------
(* Claims about run_simulation *)

\* the handler of run_simulation has ended, by returning the record or by
\* answering 500
RunEnded == frame.op = "run" /\ pc \in {"returned", "responded"}

\* the analysis failed: engine.simulate raised or returned success false
AnalysisFailed ==
    \/ pc = "responded"
    \/ frame.simulation.results.success = FALSE

\* C26: the record of an analysis that fails ends with status "failed" and
\* a non-empty reason; it is never "completed" and never left "running".
C26_FailedRunRecorded ==
    (RunEnded /\ AnalysisFailed)
    => /\ frame.simulation.status = "failed"
       /\ frame.simulation.error_message \notin {None, ""}

\* C27: propagate() emits its warning exactly when the state it leaves is
\* not a fixed point: a circuit that has settled, also one that needed 100
\* passes, gets no warning, and a circuit left unsettled gets it.
C27_WarningIffUnsettled ==
    PropagateReturned => (warned <=> ~OneMorePassChangesNothing)

----------------------------------------------------------------------------
(* Claims about circuits without feedback *)

\* every gate was added with at least one input
EveryGateHasInput == \A g \in DOMAIN gates : gates[g].num_inputs >= 1

\* the wires between existing gates form no cycle: the gates can be ranked
\* so that every such wire leads to a higher rank
WireGraphAcyclic ==
    \E rank \in [DOMAIN gates -> 1..Cardinality(DOMAIN gates)] :
        \A k \in DOMAIN wires :
            WireLive(gates, wires[k])
            => rank[wires[k].from_gate] < rank[wires[k].to_gate]

\* C28: in a circuit of fewer than 100 gates where every gate has at least
\* one input and the wires form no cycle, every gate output is UNKNOWN when
\* propagate() returns, whatever outputs were forced before the call.
C28_AcyclicSettlesUnknown ==
    (/\ PropagateReturned
     /\ Cardinality(DOMAIN gates) < 100
     /\ EveryGateHasInput
     /\ WireGraphAcyclic)
    => \A g \in DOMAIN gates : gates[g].output = UNKNOWN

\* a two-gate circuit with a wire from gate 1 to gate 2 and an output forced
\* before the call has returned from propagate() with both outputs UNKNOWN
C28_Witness ==
    /\ PropagateReturned
    /\ ~frame.fresh
    /\ DOMAIN gates = {1, 2}
    /\ EveryGateHasInput
    /\ WireGraphAcyclic
    /\ \E k \in DOMAIN wires :
          wires[k].from_gate = 1 /\ wires[k].to_gate = 2 /\ wires[k].to_input = 0
    /\ iterations >= 2
    /\ \A g \in DOMAIN gates : gates[g].output = UNKNOWN

----------------------------------------------------------------------------
(* Claims about the rows of get_truth_table *)

\* the while loop of propagate() run to its exit on a state
\* [gates, wires, changes], from pass `it` on
RECURSIVE PropagateLoop(_, _, _)
PropagateLoop(st, it, t) ==
    IF LoopCond(st.changes, it)
    THEN PropagateLoop(PropagatePass(st.gates, st.wires, t), it + 1, t)
    ELSE st

\* propagate() as a whole: the gates it leaves
Propagated(gs, ws, t) ==
    PropagateLoop([gates |-> PushWires(gs, ws).gates,
                   wires |-> PushWires(gs, ws).wires,
                   changes |-> TRUE], 0, t).gates

\* the gates and wires of a simulator just built with this circuit
FreshGates == [g \in DOMAIN gates |-> NewGate(gates[g].type, gates[g].num_inputs)]
FreshWires == [k \in DOMAIN wires |-> [wires[k] EXCEPT !.signal = UNKNOWN]]

\* the outputs a freshly built simulator of this circuit reads after
\* combination i alone is applied and propagated
FreshRowOutputs(i) ==
    OutputValues(
        Propagated(
            SetCombination(FreshGates, EmptyDict, EmptyDict, frame.input_names,
                           i, 0).gates,
            FreshWires, current_time),
        frame.output_names)

\* C29: each row of a truth table depends on its own input combination and
\* the circuit only: row i records the outputs a freshly built simulator
\* gives for combination i alone, and a second get_truth_table call returns
\* the table the first one returned.
C29_RowsIndependent ==
    TableReturned
    => /\ \A r \in 1..Len(ret) : ret[r].outputs = FreshRowOutputs(r - 1)
       /\ ("first" \in DOMAIN frame => ret = frame.first)

----------------------------------------------------------------------------
(* Claims about ConnectionManager.broadcast *)

\* C30: under every interleaving with connect() and disconnect() of other
\* clients made while broadcast() is suspended in a send, broadcast() ends
\* without an error, has attempted delivery to every connection that stayed
\* in the room for the whole broadcast, never to the excluded one, and no
\* room key maps to an empty set.
C30_BroadcastCompletes ==
    /\ broadcast.pc # "raised"
    /\ broadcast.pc = "done"
       => /\ (broadcast.stayed \ {broadcast.exclude}) \subseteq broadcast.attempted
          /\ broadcast.exclude \notin broadcast.attempted
    /\ \A r \in DOMAIN active_connections : active_connections[r] # {}

============================================================================
